---- MODULE Spec2Model ----
(***************************************************************************)
(* Key manager of the COCOON runner (KeyManagerRunner): a ledger of        *)
(* ephemeral Ed25519 keypairs with role flags and validity windows, kept   *)
(* in a key-value store whose every value carries a trailing signature of  *)
(* the node key, served over a binary RPC surface, administered over HTTP  *)
(* and maintained by a periodic alarm.                                     *)
(*                                                                         *)
(* Abstractions.  A 32-byte private key is an integer seed; the Ed25519    *)
(* public key is an injective function of the seed into one byte, printed  *)
(* as two hex digits.  A TL-serialized object is the sequence of its       *)
(* fields, one cell per field, in the order of the TL constructor.  An     *)
(* Ed25519 signature is a sequence of SignatureSize symbolic bytes, the    *)
(* i-th one naming the signer and i and the first one the signed message   *)
(* as well, so two signatures are equal exactly when signer and message    *)
(* are.  The clock counts seconds.                                         *)
(***************************************************************************)
EXTENDS Integers, Sequences, FiniteSets, TLC

\* ------------------------------------------------------------- bounds
\* Number of 32-byte random seeds the process may draw from the generator.
MaxSeeds == 3
\* Last second of the clock.
MaxNow == 86401
\* Highest version the root contract configuration reaches.
MaxVersion == 1
\* Number of bytes each remote end of the relay writes.
MaxStream == 5
MaxValidations == 2

\* ---------------------------------------------------- program constants
key_ttl == 86400
SignatureSize == 64

\* conf.machine_specific_private_key_
NodeSeed == 201

\* TL constructor ids (the first cell of a serialized object).
ID_keyManagerDb_key == 11
ID_keyManagerDb_configV1 == 12
ID_keyManagerDb_configEmpty == 13
\* TL Bool
ID_boolTrue == 1
ID_boolFalse == 0

Hashes == {"hP", "hW"}

\* ------------------------------------------------------------- helpers
Range(s) == {s[i] : i \in DOMAIN s}

\* ------------------------------------------------------------- Ed25519
\* td::Ed25519::PrivateKey::get_public_key
DerivePublic(sk) == (sk * 37 + 11) % 256

HexDigits == <<"0", "1", "2", "3", "4", "5", "6", "7",
               "8", "9", "a", "b", "c", "d", "e", "f">>

\* td::Bits256::to_hex
to_hex(b) == <<HexDigits[(b \div 16) + 1], HexDigits[(b % 16) + 1]>>

HexValue(c) == CHOOSE v \in 0..15 : HexDigits[v + 1] = c

IsHexDigit(c) == \E v \in 0..15 : HexDigits[v + 1] = c

\* td::hex_decode: the decoded bytes, or an error for an odd length or a
\* character that is no hex digit.
hex_decode(s) ==
    IF Len(s) % 2 # 0 THEN [ok |-> FALSE, bytes |-> <<>>]
    ELSE IF \E i \in DOMAIN s : ~IsHexDigit(s[i]) THEN [ok |-> FALSE, bytes |-> <<>>]
    ELSE [ok |-> TRUE,
          bytes |-> [i \in 1..(Len(s) \div 2) |->
                        HexValue(s[2 * i - 1]) * 16 + HexValue(s[2 * i])]]

\* td::Ed25519::PrivateKey::sign
SignatureByte(pk, msg, i) == IF i = 1 THEN <<"sig", pk, i, msg>> ELSE <<"sig", pk, i>>

Sign(sk, msg) == [i \in 1..SignatureSize |-> SignatureByte(DerivePublic(sk), msg, i)]

\* td::Ed25519::PublicKey::verify_signature
verify_signature(pk, msg, signature) ==
    /\ Len(signature) = SignatureSize
    /\ \A i \in 1..SignatureSize : signature[i] = SignatureByte(pk, msg, i)

\* ------------------------------------------------------ TL objects
Cell(n) == <<"data", n>>

CellValue(c) == c[2]

TlBool(b) == IF b THEN ID_boolTrue ELSE ID_boolFalse

\* create_serialize_tl_object<keyManagerDb_key>(a1, ..., a6): the arguments
\* in the order of the constructor's fields.
serialize_keyManagerDb_key(a1, a2, a3, a4, a5, a6) ==
    <<Cell(ID_keyManagerDb_key), Cell(a1), Cell(TlBool(a2)), Cell(TlBool(a3)),
      Cell(a4), Cell(a5), Cell(a6)>>

\* fetch_tl_object<keyManagerDb_key>: the fields by name, read from the
\* constructor's positions.
fetch_keyManagerDb_key(value) ==
    [private_key_ |-> CellValue(value[2]),
     for_proxies_ |-> CellValue(value[3]) = ID_boolTrue,
     for_workers_ |-> CellValue(value[4]) = ID_boolTrue,
     valid_since_config_version_ |-> CellValue(value[5]),
     valid_since_utime_ |-> CellValue(value[6]),
     valid_until_utime_ |-> CellValue(value[7])]

serialize_keyManagerDb_configV1(version) ==
    <<Cell(ID_keyManagerDb_configV1), Cell(version)>>

fetch_keyManagerDb_Config(value) ==
    [id |-> CellValue(value[1]),
     root_contract_version_ |-> IF Len(value) >= 2 THEN CellValue(value[2]) ELSE 0]

\* Whether fetch_tl_object<T>(value, true) succeeds (move_as_ok aborts the
\* process otherwise): the constructor id and the number of fields fit.
fetches_keyManagerDb_key(value) ==
    /\ Len(value) = 7
    /\ \A i \in 1..7 : value[i][1] = "data"
    /\ CellValue(value[1]) = ID_keyManagerDb_key

fetches_keyManagerDb_Config(value) ==
    /\ Len(value) >= 1
    /\ \A i \in DOMAIN value : value[i][1] = "data"
    /\ \/ Len(value) = 2 /\ CellValue(value[1]) = ID_keyManagerDb_configV1
       \/ Len(value) = 1 /\ CellValue(value[1]) = ID_keyManagerDb_configEmpty

\* ------------------------------------------------------------ store keys
\* A store key is a string, here the sequence of its pieces: "config" is
\* <<"config">>, "key_" followed by the hex digits is <<"key", "_", d1, d2>>.
ConfigDbKey == <<"config">>

KeyDbKey(public_key) == <<"key", "_">> \o to_hex(public_key)

\* td::split(key, '_'): the part before the first '_' and the part after it
\* (everything and the empty string when there is none).
split(key) ==
    IF \E i \in DOMAIN key : key[i] = "_"
    THEN LET i == CHOOSE j \in DOMAIN key :
                      key[j] = "_" /\ \A l \in 1..(j - 1) : key[l] # "_"
         IN  [first |-> SubSeq(key, 1, i - 1), second |-> SubSeq(key, i + 1, Len(key))]
    ELSE [first |-> key, second |-> <<>>]

\* ------------------------------------------------- the key-value store
\* td::KeyValue: a function from store keys to values.  A value is a byte
\* string; the state holds it in a short form, [payload, signer, length,
\* flipped], that stands for the first `length` bytes of payload ||
\* Sign(signer, payload) with the byte at `flipped` (if any) altered.  The
\* runner reads a value only through Bytes.
EmptyStore == [k \in {} |-> <<>>]

\* The short form of value || Sign(signer, value).
Signed(value, signer) ==
    [payload |-> value, signer |-> signer, length |-> Len(value) + SignatureSize,
     flipped |-> 0]

\* A byte with another content: one that no signature has at its place.
Altered(byte) ==
    IF byte[1] = "data" THEN <<"data", byte[2] + 1>>
    ELSE [byte EXCEPT ![3] = byte[3] + SignatureSize]

\* The byte string a short form stands for.
Bytes(v) ==
    LET whole == v.payload \o Sign(v.signer, v.payload)
    IN  [i \in 1..v.length |-> IF i = v.flipped THEN Altered(whole[i]) ELSE whole[i]]

kv_set(store, key, value) ==
    [k \in DOMAIN store \cup {key} |-> IF k = key THEN value ELSE store[k]]

kv_erase(store, key) == [k \in DOMAIN store \ {key} |-> store[k]]

\* value.copy().remove_prefix(value.size() - 64): the last 64 bytes.
SignaturePart(value) == SubSeq(value, Len(value) - SignatureSize + 1, Len(value))

\* remove_suffix with one byte too few taken off.
PayloadPart_off_by_one(value) == SubSeq(value, 1, Len(value) - SignatureSize + 1)

\* value.remove_suffix(64): all but the last 64 bytes.
PayloadPart(value) == SubSeq(value, 1, Len(value) - SignatureSize)

\* The node's public key object (load_config).
public_key_ == DerivePublic(NodeSeed)

\* The size is checked and the signature is not.
SignedValueOk_size_only(value) == Len(value) >= SignatureSize

\* CHECK(value.size() >= 64) and verify_signature(...).ensure(), shared by
\* get_from_db and process_db_key: TRUE when the process survives them.
SignedValueOk(value) ==
    /\ Len(value) >= SignatureSize
    /\ verify_signature(public_key_, PayloadPart(value), SignaturePart(value))

\* KeyManagerRunner::get_from_db: the payload without its signature, the
\* empty slice for a missing key, or a fatal error.
get_from_db(store, key) ==
    IF key \in DOMAIN store
    THEN LET config_value == Bytes(store[key])
         IN  IF SignedValueOk(config_value)
             THEN [fatal |-> FALSE, value |-> PayloadPart(config_value)]
             ELSE [fatal |-> TRUE, value |-> <<>>]
    ELSE [fatal |-> FALSE, value |-> <<>>]

\* KeyManagerRunner::set_to_db: value || Sign(private_key_, value).
set_to_db(store, key, value) == kv_set(store, key, Signed(value, NodeSeed))

\* KeyManagerRunner::del_from_db
del_from_db(store, key) == kv_erase(store, key)

\* The marker is not written.
config_to_db_skipped(store, root_version) == store

\* KeyManagerRunner::config_to_db
config_to_db(store, root_version) ==
    set_to_db(store, ConfigDbKey, serialize_keyManagerDb_configV1(root_version))

\* ------------------------------------------------------------ the ledger
\* struct PrivateKey
PrivateKey(private_key, public_key, for_proxies, for_workers, version, since, until) ==
    [private_key |-> private_key, public_key |-> public_key,
     for_proxies |-> for_proxies, for_workers |-> for_workers,
     valid_since_config_version_ |-> version,
     valid_since_ |-> since, valid_until_ |-> until]

\* The comparison is turned around.
config_version_reached_reversed(active_version, valid_since_config_version) ==
    active_version <= valid_since_config_version

\* process_db_key, CHECK(active_config_version_ >= valid_since_config_version_)
config_version_reached(active_version, valid_since_config_version) ==
    active_version >= valid_since_config_version

\* The name of the entry is checked for its length only.
public_key_is_key_by_length(public_key, key) == Len(to_hex(public_key)) = Len(key)

\* process_db_key, CHECK(P->public_key.to_hex() == key): key is what follows
\* "key_" in the name of the entry.
public_key_is_key(public_key, key) == to_hex(public_key) = key

\* KeyManagerRunner::process_db_key for one entry of the store: fatal, or
\* the records (none or one) it appends to private_keys_.
process_db_key(key, value, active_version, clock) ==
    LET key_type == split(key).first
        rest == split(key).second
        payload == PayloadPart(value)
        obj == fetch_keyManagerDb_key(payload)
        P == PrivateKey(obj.private_key_, DerivePublic(obj.private_key_),
                        obj.for_proxies_, obj.for_workers_,
                        obj.valid_since_config_version_,
                        obj.valid_since_utime_, obj.valid_until_utime_)
    IN  IF ~SignedValueOk(value) THEN [fatal |-> TRUE, keys |-> <<>>]
        ELSE IF key_type = <<"key">>
        THEN IF /\ fetches_keyManagerDb_key(payload)
                /\ public_key_is_key(P.public_key, rest)
                /\ config_version_reached(active_version, P.valid_since_config_version_)
             THEN [fatal |-> FALSE,
                   keys |-> IF P.valid_until_ > clock THEN <<P>> ELSE <<>>]
             ELSE [fatal |-> TRUE, keys |-> <<>>]
        ELSE IF key_type = <<"config">> THEN [fatal |-> FALSE, keys |-> <<>>]
        ELSE [fatal |-> TRUE, keys |-> <<>>]

\* The order in which a snapshot enumerates the keys (byte order of the key
\* strings): "config", then "key_<hex>" by hex digits, then anything later
\* in the alphabet.
DbKeyRank(key) ==
    IF key = ConfigDbKey THEN 0
    ELSE IF split(key).first = <<"key">> /\ hex_decode(split(key).second).ok
              /\ Len(split(key).second) = 2
         THEN 1 + hex_decode(split(key).second).bytes[1]
         ELSE 1000

RECURSIVE ScanOrder(_)
ScanOrder(keys) ==
    IF keys = {} THEN <<>>
    ELSE LET k == CHOOSE x \in keys : \A y \in keys : DbKeyRank(x) <= DbKeyRank(y)
         IN  <<k>> \o ScanOrder(keys \ {k})

\* snap->for_each(process_db_key): the entries in key order; fatal as soon
\* as one entry is.
RECURSIVE for_each_process_db_key(_, _, _, _)
for_each_process_db_key(order, store, active_version, clock) ==
    IF order = <<>> THEN [fatal |-> FALSE, keys |-> <<>>]
    ELSE LET one == process_db_key(Head(order), Bytes(store[Head(order)]),
                                   active_version, clock)
             rest == for_each_process_db_key(Tail(order), store, active_version, clock)
         IN  IF one.fatal \/ rest.fatal THEN [fatal |-> TRUE, keys |-> <<>>]
             ELSE [fatal |-> FALSE, keys |-> one.keys \o rest.keys]

\* td::Random::secure_bytes: the n-th 32-byte seed drawn from the generator;
\* no seed is drawn twice.
secure_bytes(n) == n + 1

\* The new record takes the place of the last one instead of following it.
generate_key_over_last(m, for_proxies, for_workers, active_version, clock) ==
    LET pk == secure_bytes(m.entropy)
        pub == DerivePublic(pk)
        P == PrivateKey(pk, pub, for_proxies, for_workers, active_version,
                        clock, clock + key_ttl)
    IN  [private_keys_ |-> Append(SubSeq(m.private_keys_, 1, Len(m.private_keys_) - 1), P),
         kv |-> set_to_db(m.kv, KeyDbKey(P.public_key),
                    serialize_keyManagerDb_key(P.private_key, P.for_workers, P.for_proxies,
                        P.valid_since_config_version_, P.valid_since_, P.valid_until_)),
         entropy |-> m.entropy + 1]

\* KeyManagerRunner::generate_key on the machine m = [private_keys_, kv,
\* entropy]: the new record is signed into the store and appended.
generate_key(m, for_proxies, for_workers, active_version, clock) ==
    LET pk == secure_bytes(m.entropy)
        pub == DerivePublic(pk)
        P == PrivateKey(pk, pub, for_proxies, for_workers, active_version,
                        clock, clock + key_ttl)
    IN  [private_keys_ |-> Append(m.private_keys_, P),
         kv |-> set_to_db(m.kv, KeyDbKey(P.public_key),
                    serialize_keyManagerDb_key(P.private_key, P.for_workers, P.for_proxies,
                        P.valid_since_config_version_, P.valid_since_, P.valid_until_)),
         entropy |-> m.entropy + 1]

\* The record leaves the list and its entry stays in the store.
remove_key_from_list_only(m, public_key) ==
    [private_keys_ |-> SelectSeq(m.private_keys_, LAMBDA k : k.public_key # public_key),
     kv |-> m.kv,
     entropy |-> m.entropy]

\* KeyManagerRunner::remove_key: the first record with that public key is
\* erased from the store and from the list.
remove_key(m, public_key) ==
    IF \E i \in DOMAIN m.private_keys_ : m.private_keys_[i].public_key = public_key
    THEN LET i == CHOOSE j \in DOMAIN m.private_keys_ :
                    /\ m.private_keys_[j].public_key = public_key
                    /\ \A l \in 1..(j - 1) : m.private_keys_[l].public_key # public_key
         IN  [private_keys_ |-> SubSeq(m.private_keys_, 1, i - 1)
                                  \o SubSeq(m.private_keys_, i + 1, Len(m.private_keys_)),
              kv |-> kv_erase(m.kv, KeyDbKey(m.private_keys_[i].public_key)),
              entropy |-> m.entropy]
    ELSE m

\* The cycle of KeyManagerRunner::alarm past its is_initialized() test:
\* whether a key is swept.
alarm_expired(k, clock) == k.valid_until_ < clock

\* The keys of the cycle carry the version the cycle began with.
alarm_cycle_stale_version(m, active_version, root_version, clock) ==
    LET advance == root_version > active_version
        version == IF advance THEN root_version ELSE active_version
        kv1 == IF advance THEN config_to_db(m.kv, root_version) ELSE m.kv
        swept == {KeyDbKey(m.private_keys_[i].public_key) :
                     i \in {j \in DOMAIN m.private_keys_ :
                                alarm_expired(m.private_keys_[j], clock)}}
        kept == SelectSeq(m.private_keys_, LAMBDA k : ~alarm_expired(k, clock))
        p_cnt == Cardinality({i \in DOMAIN kept : kept[i].for_proxies})
        w_cnt == Cardinality({i \in DOMAIN kept : kept[i].for_workers})
        m1 == [private_keys_ |-> kept,
               kv |-> [k \in DOMAIN kv1 \ swept |-> kv1[k]],
               entropy |-> m.entropy]
        m2 == IF w_cnt = 0 THEN generate_key(m1, FALSE, TRUE, active_version, clock) ELSE m1
        m3 == IF p_cnt = 0 THEN generate_key(m2, TRUE, FALSE, active_version, clock) ELSE m2
    IN  [m |-> m3, active_config_version_ |-> version]

\* The cycle of KeyManagerRunner::alarm past its is_initialized() test, one
\* store transaction: version advance, sweep, one key per uncovered role.
alarm_cycle(m, active_version, root_version, clock) ==
    LET advance == root_version > active_version
        version == IF advance THEN root_version ELSE active_version
        kv1 == IF advance THEN config_to_db(m.kv, root_version) ELSE m.kv
        swept == {KeyDbKey(m.private_keys_[i].public_key) :
                     i \in {j \in DOMAIN m.private_keys_ :
                                alarm_expired(m.private_keys_[j], clock)}}
        kept == SelectSeq(m.private_keys_, LAMBDA k : ~alarm_expired(k, clock))
        p_cnt == Cardinality({i \in DOMAIN kept : kept[i].for_proxies})
        w_cnt == Cardinality({i \in DOMAIN kept : kept[i].for_workers})
        m1 == [private_keys_ |-> kept,
               kv |-> [k \in DOMAIN kv1 \ swept |-> kv1[k]],
               entropy |-> m.entropy]
        m2 == IF w_cnt = 0 THEN generate_key(m1, FALSE, TRUE, version, clock) ELSE m1
        m3 == IF p_cnt = 0 THEN generate_key(m2, TRUE, FALSE, version, clock) ELSE m2
    IN  [m |-> m3, active_config_version_ |-> version]

\* The calls KeyManagerRunner::alarm makes on kv_, in the order it makes them.
KvCall(op, key, value) == [op |-> op, key |-> key, value |-> value]

KvSet(key, value) == KvCall("set", key, Signed(value, NodeSeed))

KvErase(key) == KvCall("erase", key, Signed(<<>>, NodeSeed))

KvControl(op) == KvCall(op, <<>>, Signed(<<>>, NodeSeed))

\* The set_to_db of the generate_key call that made the machine g.
generate_key_write(g) ==
    LET P == g.private_keys_[Len(g.private_keys_)]
    IN  KvCall("set", KeyDbKey(P.public_key), g.kv[KeyDbKey(P.public_key)])

\* The writes of the cycle: config_to_db when the version advances, one
\* erase per record swept, one set_to_db per key generated.
alarm_writes(m, active_version, root_version, clock) ==
    LET advance == root_version > active_version
        version == IF advance THEN root_version ELSE active_version
        expired == SelectSeq(m.private_keys_, LAMBDA k : alarm_expired(k, clock))
        kept == SelectSeq(m.private_keys_, LAMBDA k : ~alarm_expired(k, clock))
        p_cnt == Cardinality({i \in DOMAIN kept : kept[i].for_proxies})
        w_cnt == Cardinality({i \in DOMAIN kept : kept[i].for_workers})
        m1 == [private_keys_ |-> kept, kv |-> m.kv, entropy |-> m.entropy]
        m2 == IF w_cnt = 0 THEN generate_key(m1, FALSE, TRUE, version, clock) ELSE m1
        m3 == IF p_cnt = 0 THEN generate_key(m2, TRUE, FALSE, version, clock) ELSE m2
    IN  (IF advance
         THEN <<KvSet(ConfigDbKey, serialize_keyManagerDb_configV1(root_version))>>
         ELSE <<>>)
        \o [i \in DOMAIN expired |-> KvErase(KeyDbKey(expired[i].public_key))]
        \o (IF w_cnt = 0 THEN <<generate_key_write(m2)>> ELSE <<>>)
        \o (IF p_cnt = 0 THEN <<generate_key_write(m3)>> ELSE <<>>)

\* The flush is asked for before the commit.
alarm_calls_flush_first(m, active_version, root_version, clock) ==
    <<KvControl("begin_transaction")>>
        \o alarm_writes(m, active_version, root_version, clock)
        \o <<KvControl("flush"), KvControl("commit_transaction")>>

\* KeyManagerRunner::alarm past its is_initialized() test: begin_transaction,
\* the writes, commit_transaction, flush.
alarm_calls(m, active_version, root_version, clock) ==
    <<KvControl("begin_transaction")>>
        \o alarm_writes(m, active_version, root_version, clock)
        \o <<KvControl("commit_transaction"), KvControl("flush")>>

\* ------------------------------------------------ root contract config
\* runner_config()->root_contract_config->has_proxy_hash / has_worker_hash:
\* the allow-lists registered in the version of the configuration.
ProxyHashes(root_version) == {"hP"}

WorkerHashes(root_version) == {"hW"}

has_proxy_hash(root_version, h) == h \in ProxyHashes(root_version)

has_worker_hash(root_version, h) == h \in WorkerHashes(root_version)

\* ------------------------------------------------ the attested tunnel
\* tee/cocoon/utils.cpp. The two ends of one raw connection: the end that
\* calls wrap_tls_client and the end that calls wrap_tls_server.
Sides == {"client", "server"}

Peer(s) == IF s = "client" THEN "server" ELSE "client"

\* The public keys a certificate can claim (tdx::UserClaims::public_key).
ClaimedKeys == {1, 2}

UserClaims(public_key) == [public_key |-> public_key]

\* The quote a certificate carries for its key, and what a policy makes of it.
Quote(public_key) == <<"quote", public_key>>

AttestationData(quote) == <<"attested", quote>>

\* td::IPAddress values handed to the wrap calls.
Addresses == {[ip |-> "10.0.0.1", port |-> 1000], [ip |-> "10.0.0.2", port |-> 2000]}

\* tdx::Policy is opaque to the tunnel: a policy is what it accepts and the
\* error it rejects with.
Policies ==
    { [accepts |-> ClaimedKeys, error |-> "policy: none"],
      [accepts |-> {1}, error |-> "policy: key is not allowed"],
      [accepts |-> {}, error |-> "policy: quote is not trusted"] }

\* inner_policy_->validate(quote, user_claims)
inner_policy_validate(policy, quote, user_claims) ==
    IF user_claims.public_key \in policy.accepts
    THEN [is_ok |-> TRUE, ok |-> AttestationData(quote), error |-> ""]
    ELSE [is_ok |-> FALSE, ok |-> <<>>, error |-> policy.error]

NoAddress == [ip |-> "", port |-> 0]

NoPeerInfo ==
    [attestation_data |-> <<>>, user_claims |-> UserClaims(0),
     source_ip |-> "", source_port |-> 0, destination_ip |-> "", destination_port |-> 0]

\* The addresses are taken for each other.
make_attested_peer_info_swapped(attestation, user_claims, source, destination) ==
    [attestation_data |-> attestation, user_claims |-> user_claims,
     source_ip |-> destination.ip, source_port |-> destination.port,
     destination_ip |-> source.ip, destination_port |-> source.port]

\* cocoon::make_attested_peer_info
make_attested_peer_info(attestation, user_claims, source, destination) ==
    [attestation_data |-> attestation, user_claims |-> user_claims,
     source_ip |-> source.ip, source_port |-> source.port,
     destination_ip |-> destination.ip, destination_port |-> destination.port]

\* The one-shot bridge of make_bridge: nothing yet, a value, or an error.
UnsetPromise == [state |-> "unset", value |-> NoPeerInfo, error |-> ""]

set_value(value) == [state |-> "value", value |-> value, error |-> ""]

set_error(error) == [state |-> "error", value |-> NoPeerInfo, error |-> error]

\* A later resolution takes the place of the one the bridge holds.
resolve_overwrites(promise, resolution) == resolution

\* ExternalPromise::set_value and set_error on the bridge: it is resolved
\* once, and a resolution of a resolved bridge is dropped.
resolve(promise, resolution) ==
    IF promise.state = "unset" THEN resolution ELSE promise

\* The promise is fulfilled whatever the inner policy says.
validate_always_fulfils(policy, source, destination, quote, user_claims) ==
    LET r_attestation == inner_policy_validate(policy, quote, user_claims)
    IN  [r_attestation |-> r_attestation,
         peer_info_promise_ |->
             set_value(make_attested_peer_info(AttestationData(quote), user_claims,
                                               source, destination))]

\* PolicyHelper::validate: the inner policy's result, and what it does to
\* the promise of the wrap call.
validate(policy, source, destination, quote, user_claims) ==
    LET r_attestation == inner_policy_validate(policy, quote, user_claims)
    IN  [r_attestation |-> r_attestation,
         peer_info_promise_ |->
             IF r_attestation.is_ok
             THEN set_value(make_attested_peer_info(r_attestation.ok, user_claims,
                                                    source, destination))
             ELSE set_error(r_attestation.error)]

\* The records of the handshake on the raw pipe.
ClientHello == [type |-> "ClientHello", quote |-> <<>>, user_claims |-> UserClaims(0)]

Certificate(public_key) ==
    [type |-> "Certificate", quote |-> Quote(public_key), user_claims |-> UserClaims(public_key)]

NoResult == [status |-> "pending", tls_pipe |-> FALSE, peer_info |-> NoPeerInfo, error |-> ""]

\* One end before its wrap call.
NotCalled ==
    [pos |-> "not_called", cert_and_key |-> 0,
     policy |-> [accepts |-> {}, error |-> ""],
     source |-> NoAddress, destination |-> NoAddress,
     peer_info_promise_ |-> UnsetPromise,
     worker |-> "none", left_inner_ |-> "none", right_ |-> "unset", left_ssl_ |-> "none",
     validate_calls |-> 0,
     peer_info |-> NoPeerInfo, result |-> NoResult]

\* ------------------------------------------------------------ the relay
\* A td::Pipe of the ProxyWorker with its remote end: what the remote end
\* has written and the relay has not read yet, the two buffers of the pipe,
\* and what the remote end has received.
EmptyPipe ==
    [written |-> <<>>, readable |-> <<>>, input_buffer |-> <<>>,
     output_buffer |-> <<>>, received |-> <<>>, closed |-> FALSE]

NoRelay ==
    [status |-> "none", result |-> "pending", left_ |-> EmptyPipe, right_ |-> EmptyPipe]

\* The bound on a pipe's buffers that the relay is to respect.
BufferBound == 1

\* ------------------------------------------- the command line client
\* SC_STATE of unstake.js, and a proxy entry that has no state field.
SC_STATE_ACTIVE == 0
SC_STATE_CLOSING == 1
SC_STATE_CLOSED == 2
StateMissing == -1

\* pollState as unstakeCommand calls it: timeoutMs and intervalMs.
PollTimeoutMs == 120000
PollIntervalMs == 3000

\* unstakeCommand before it has run: the state it read, the requests it
\* has sent to the client, the time spent in pollState, whether it has seen
\* the proxy closed, what became of the proxy withdraw, why it gave up, and
\* whether transferCocoonToOwner was called.
NoUnstake ==
    [pos |-> "start", state |-> SC_STATE_ACTIVE, sent |-> <<>>, elapsed |-> 0,
     closed |-> "no", withdraw |-> "none", gave_up |-> "no", transfer |-> "none"]

NoPayout ==
    [pos |-> "start", command |-> "withdraw", isMax |-> FALSE, balance |-> 0,
     sendAmount |-> 0, proceed |-> FALSE, sent |-> <<>>, exit |-> "none"]

Children == {"router", "client"}

MaxSetupCalls == 2
MaxSignals == 2

\* process.js at module load: no processes, not shutting down, no handlers;
\* with it what the model records of the children and of the parent's end.
NoChildren ==
    [processes |-> <<>>, status |-> [c \in Children |-> "unborn"],
     signalHandlersRegistered |-> FALSE, handlers |-> 0, setup_calls |-> 0,
     shuttingDown |-> FALSE, shutdowns |-> 0, signals |-> 0,
     sigterm |-> {}, sigkill |-> {}, waiting |-> {}, timeout |-> "none",
     cleanups |-> 0, exit |-> "none"]

MaxLineLen == 3

\* No child spawned yet, nothing read from it, nothing printed.
NoOutput ==
    [pos |-> "start", quiet |-> FALSE, line |-> <<>>, stream |-> "stdout",
     events |-> <<>>, stderr |-> <<>>, stdout |-> <<>>]

DefaultMaxRetries == 5
RetryDelayMs == 2000

\* withRetry not called.
NoRetry ==
    [pos |-> "start", maxRetries |-> DefaultMaxRetries, i |-> 0, calls |-> 0,
     errors |-> <<>>, delays |-> <<>>, outcome |-> "none", result |-> 0]

\* ------------------------------------------------------------ the state
VARIABLES
    pc,                      \* where the process is in its life
    check_hashes_,           \* KeyManagerRunner::check_hashes_
    private_keys_,           \* KeyManagerRunner::private_keys_
    active_config_version_,  \* KeyManagerRunner::active_config_version_
    kv,                      \* the store as the process (or the disk) holds it
    durable,                 \* the store as of the last flush
    entropy,                 \* seeds drawn from the random generator so far
    now,                     \* td::Clocks::system()
    root_version,            \* runner_config()->root_contract_config->version()
    response,                \* what the handler that has just returned gave its caller
    tunnel,                  \* per side: the wrap_tls_* call, its TlsPipeWorker and its promise
    raw,                     \* per side: the TLS records on the raw pipe, not yet read
    relay,                   \* the ProxyWorker, its two pipes and their remote ends
    unstake,                 \* unstakeCommand: where it is and what it has done
    payout,                  \* withdrawCommand / cashoutCommand: the same
    children,                \* process.js: the parent, its children, its handlers
    output,                  \* process.js: the lines of a child and what was shown
    retry                    \* withRetry: the calls made so far

\* The key manager's part of the state, and the network helpers' part.
runner_vars == <<pc, check_hashes_, private_keys_, active_config_version_, kv, durable,
                 entropy, now, root_version, response>>
net_vars == <<tunnel, raw, relay>>

\* The command line client's part.
cli_vars == <<unstake, payout, children, output, retry>>

vars == <<pc, check_hashes_, private_keys_, active_config_version_, kv, durable,
          entropy, now, root_version, response, tunnel, raw, relay,
          unstake, payout, children, output, retry>>

\* BaseRunner::is_initialized
is_initialized == pc = "ready"

\* kv_ is set (custom_initialize opened the store).
kv_opened == pc \in {"custom_initialized", "ready"}

NoResponse == [to |-> "none", from |-> "none", status |-> "none", text |-> "", keys |-> <<>>]

machine == [private_keys_ |-> private_keys_, kv |-> kv, entropy |-> entropy]

Init ==
    /\ pc = "created"
    /\ check_hashes_ = FALSE
    /\ private_keys_ = <<>>
    /\ active_config_version_ = 0
    /\ kv = EmptyStore
    /\ durable = EmptyStore
    /\ entropy = 0
    /\ now = 0
    /\ root_version = 0
    /\ response = NoResponse
    /\ tunnel = [s \in Sides |-> NotCalled]
    /\ raw = [s \in Sides |-> <<>>]
    /\ relay = NoRelay
    /\ unstake = NoUnstake
    /\ payout = NoPayout
    /\ children = NoChildren
    /\ output = NoOutput
    /\ retry = NoRetry

\* The memory of a process that has not loaded anything yet.
FreshMemory ==
    /\ check_hashes_' = FALSE
    /\ private_keys_' = <<>>
    /\ active_config_version_' = 0

\* The process aborts (CHECK, ensure, LOG(FATAL), a null kv_): nothing of
\* an open transaction reaches the store.
Abort ==
    /\ pc' = "dead"
    /\ FreshMemory
    /\ UNCHANGED <<kv, durable, entropy, now, root_version, response>>

\* The flag of the configuration is taken as it is, whatever is_test says.
load_config_flag_only(conf_check_hashes, conf_is_test) ==
    /\ UNCHANGED <<net_vars, cli_vars>>
    /\ pc = "created"
    /\ pc' = "configured"
    /\ check_hashes_' = conf_check_hashes
    /\ UNCHANGED <<private_keys_, active_config_version_, kv, durable, entropy, now,
                   root_version, response>>

\* KeyManagerRunner::load_config
load_config(conf_check_hashes, conf_is_test) ==
    /\ UNCHANGED <<net_vars, cli_vars>>
    /\ pc = "created"
    /\ pc' = "configured"
    /\ check_hashes_' = IF conf_check_hashes \/ ~conf_is_test THEN TRUE ELSE check_hashes_
    /\ UNCHANGED <<private_keys_, active_config_version_, kv, durable, entropy, now,
                   root_version, response>>

\* custom_initialize, the "config" entry: fatal, or the active version.
read_config(store, root_ver) ==
    LET got == get_from_db(store, ConfigDbKey)
        c == fetch_keyManagerDb_Config(got.value)
    IN  IF got.fatal THEN [fatal |-> TRUE, version |-> 0]
        ELSE IF Len(got.value) > 0
        THEN IF /\ fetches_keyManagerDb_Config(got.value)
                /\ c.id = ID_keyManagerDb_configV1
                /\ root_ver >= c.root_contract_version_
             THEN [fatal |-> FALSE, version |-> c.root_contract_version_]
             ELSE [fatal |-> TRUE, version |-> 0]
        ELSE [fatal |-> FALSE, version |-> 0]

\* KeyManagerRunner::custom_initialize: open the store, read the config
\* entry, replay every entry, register the HTTP handlers, fulfil the promise.
custom_initialize ==
    /\ UNCHANGED <<net_vars, cli_vars>>
    /\ pc = "configured"
    /\ LET cfg == read_config(kv, root_version)
           scan == for_each_process_db_key(ScanOrder(DOMAIN kv), kv, cfg.version, now)
       IN  IF cfg.fatal \/ scan.fatal
           THEN Abort
           ELSE /\ pc' = "custom_initialized"
                /\ active_config_version_' = cfg.version
                /\ private_keys_' = scan.keys
                /\ UNCHANGED <<check_hashes_, kv, durable, entropy, now, root_version, response>>

\* BaseRunner, on the promise of custom_initialize: the runner is initialized.
initialization_completed ==
    /\ UNCHANGED <<net_vars, cli_vars>>
    /\ pc = "custom_initialized"
    /\ pc' = "ready"
    /\ UNCHANGED <<check_hashes_, private_keys_, active_config_version_, kv, durable,
                   entropy, now, root_version, response>>

\* KeyManagerRunner::alarm, the test it returns early on.
alarm_returns_early == is_initialized

\* The alarm has no caller to answer: that it has returned is all there is.
AlarmReturned ==
    [to |-> "alarm", from |-> "timer", status |-> "returned", text |-> "", keys |-> <<>>]

\* KeyManagerRunner::alarm.  Before custom_initialize kv_ is a null pointer
\* and begin_transaction() on it ends the process.
alarm ==
    /\ UNCHANGED <<net_vars, cli_vars>>
    /\ pc # "dead"
    /\ IF alarm_returns_early
       THEN /\ response' = AlarmReturned
            /\ UNCHANGED <<pc, check_hashes_, private_keys_, active_config_version_, kv,
                           durable, entropy, now, root_version>>
       ELSE IF ~kv_opened
       THEN Abort
       ELSE LET c == alarm_cycle(machine, active_config_version_, root_version, now)
            IN  /\ c.m.entropy <= MaxSeeds
                /\ private_keys_' = c.m.private_keys_
                /\ active_config_version_' = c.active_config_version_
                /\ kv' = c.m.kv
                /\ durable' = c.m.kv
                /\ entropy' = c.m.entropy
                /\ response' = AlarmReturned
                /\ UNCHANGED <<pc, check_hashes_, now, root_version>>

\* The opcodes a query can carry, and the connections it can arrive on
\* (get_connection yields none for an unknown connection id).
Magics == {"getProxyPrivateKeys", "getWorkerPrivateKeys", "unknown"}

NoConnection == "none"

Connections == Hashes \cup {NoConnection}

\* receive_query, getProxyPrivateKeys: the (valid_until, private_key) pairs
\* of the records with for_proxies, in the order of the list.
proxy_private_keys(keys) ==
    LET chosen == SelectSeq(keys, LAMBDA k : k.for_proxies)
    IN  [i \in DOMAIN chosen |-> <<chosen[i].valid_until_, chosen[i].private_key>>]

\* Every record is taken, whatever its role.
all_private_keys(keys) ==
    [i \in DOMAIN keys |-> <<keys[i].valid_until_, keys[i].private_key>>]

\* receive_query, getWorkerPrivateKeys: the same for for_workers.
worker_private_keys(keys) ==
    LET chosen == SelectSeq(keys, LAMBDA k : k.for_workers)
    IN  [i \in DOMAIN chosen |-> <<chosen[i].valid_until_, chosen[i].private_key>>]

\* receive_query, the hash tests of the two branches.
proxy_hash_refused(hash) == check_hashes_ /\ ~has_proxy_hash(root_version, hash)

\* The worker branch reads the proxy list.
worker_hash_refused_by_proxy_list(hash) ==
    check_hashes_ /\ ~has_proxy_hash(root_version, hash)

worker_hash_refused(hash) == check_hashes_ /\ ~has_worker_hash(root_version, hash)

\* The default case runs into the worker case.
worker_answer_by_default(magic, hash) ==
    [to |-> magic, from |-> hash, status |-> "ok", text |-> "",
     keys |-> worker_private_keys(private_keys_)]

\* receive_query, the default case of the switch.
unknown_magic_answer(magic, hash) ==
    [to |-> magic, from |-> hash, status |-> "error",
     text |-> "unknown query magic", keys |-> <<>>]

\* The answer receive_query gives on an initialized runner and a known
\* connection.
query_answer(magic, hash) ==
    IF magic = "getProxyPrivateKeys"
    THEN IF proxy_hash_refused(hash)
         THEN [to |-> magic, from |-> hash, status |-> "error",
               text |-> "unknown proxy hash", keys |-> <<>>]
         ELSE [to |-> magic, from |-> hash, status |-> "ok", text |-> "",
               keys |-> proxy_private_keys(private_keys_)]
    ELSE IF magic = "getWorkerPrivateKeys"
    THEN IF worker_hash_refused(hash)
         THEN [to |-> magic, from |-> hash, status |-> "error",
               text |-> "unknown worker hash", keys |-> <<>>]
         ELSE [to |-> magic, from |-> hash, status |-> "ok", text |-> "",
               keys |-> worker_private_keys(private_keys_)]
    ELSE unknown_magic_answer(magic, hash)

\* KeyManagerRunner::receive_query: no answer at all before the runner is
\* initialized or on an unknown connection.
receive_query(magic, conn) ==
    /\ UNCHANGED <<net_vars, cli_vars>>
    /\ pc # "dead"
    /\ response' = IF ~is_initialized \/ conn = NoConnection
                   THEN NoResponse
                   ELSE query_answer(magic, conn)
    /\ UNCHANGED <<pc, check_hashes_, private_keys_, active_config_version_, kv, durable,
                   entropy, now, root_version>>

\* The length of the decoded key is not looked at.
http_remove_key_any_length(m, pub_key) ==
    LET R == hex_decode(pub_key)
    IN  IF ~R.ok THEN [m |-> m, text |-> "cannot decode hex"]
        ELSE [m |-> remove_key(m, R.bytes[1]), text |-> "key removed"]

\* KeyManagerRunner::http_remove_key
http_remove_key(m, pub_key) ==
    LET R == hex_decode(pub_key)
    IN  IF ~R.ok THEN [m |-> m, text |-> "cannot decode hex"]
        ELSE IF Len(R.bytes) # 1
        THEN [m |-> m, text |-> "cannot decode hex: public key must be 32 bytes long"]
        ELSE [m |-> remove_key(m, R.bytes[1]), text |-> "key removed"]

\* The roles of "worker" and "proxy" are taken for each other.
http_generate_key_roles_swapped(m, key_type, clock) ==
    IF key_type = "worker"
    THEN [m |-> generate_key(m, TRUE, FALSE, active_config_version_, clock),
          flush |-> TRUE, text |-> "key generated"]
    ELSE IF key_type = "proxy"
    THEN [m |-> generate_key(m, FALSE, TRUE, active_config_version_, clock),
          flush |-> TRUE, text |-> "key generated"]
    ELSE IF key_type = "proxyworker"
    THEN [m |-> generate_key(m, TRUE, TRUE, active_config_version_, clock),
          flush |-> TRUE, text |-> "key generated"]
    ELSE [m |-> m, flush |-> FALSE, text |-> "unknown key type"]

\* KeyManagerRunner::http_generate_key, before its flush.
http_generate_key(m, key_type, clock) ==
    IF key_type = "worker"
    THEN [m |-> generate_key(m, FALSE, TRUE, active_config_version_, clock),
          flush |-> TRUE, text |-> "key generated"]
    ELSE IF key_type = "proxy"
    THEN [m |-> generate_key(m, TRUE, FALSE, active_config_version_, clock),
          flush |-> TRUE, text |-> "key generated"]
    ELSE IF key_type = "proxyworker"
    THEN [m |-> generate_key(m, TRUE, TRUE, active_config_version_, clock),
          flush |-> TRUE, text |-> "key generated"]
    ELSE [m |-> m, flush |-> FALSE, text |-> "unknown key type"]

Methods == {"POST", "GET"}

KeyTypes == {"worker", "proxy", "proxyworker", "other"}

\* The /request/removekey handler registered by custom_initialize.
request_removekey(method, pub_key) ==
    /\ UNCHANGED <<net_vars, cli_vars>>
    /\ is_initialized
    /\ LET r == IF method # "POST" /\ method # "post"
                THEN [m |-> machine, text |-> "removekey must be a post request"]
                ELSE http_remove_key(machine, pub_key)
       IN  /\ private_keys_' = r.m.private_keys_
           /\ kv' = r.m.kv
           /\ response' = [to |-> "/request/removekey", from |-> method, status |-> "ok",
                           text |-> r.text, keys |-> <<>>]
    /\ UNCHANGED <<pc, check_hashes_, active_config_version_, durable, entropy, now,
                   root_version>>

\* The /request/generatekey handler registered by custom_initialize.
request_generatekey(method, key_type) ==
    /\ UNCHANGED <<net_vars, cli_vars>>
    /\ is_initialized
    /\ LET r == IF method # "POST" /\ method # "post"
                THEN [m |-> machine, flush |-> FALSE,
                      text |-> "generatekey must be a post request"]
                ELSE http_generate_key(machine, key_type, now)
       IN  /\ r.m.entropy <= MaxSeeds
           /\ private_keys_' = r.m.private_keys_
           /\ kv' = r.m.kv
           /\ entropy' = r.m.entropy
           /\ durable' = IF r.flush THEN r.m.kv ELSE durable
           /\ response' = [to |-> "/request/generatekey", from |-> method, status |-> "ok",
                           text |-> r.text, keys |-> <<>>]
    /\ UNCHANGED <<pc, check_hashes_, active_config_version_, now, root_version>>

\* ------------------------------------------------------ the environment
TickSteps == {key_ttl, key_ttl + 1}

\* Time passes.
Tick(d) ==
    /\ UNCHANGED <<net_vars, cli_vars>>
    /\ kv_opened
    /\ now + d <= MaxNow
    /\ now' = now + d
    /\ UNCHANGED <<pc, check_hashes_, private_keys_, active_config_version_, kv, durable,
                   entropy, root_version, response>>

\* BaseRunner refreshes the root contract configuration: a later version.
root_contract_update ==
    /\ UNCHANGED <<net_vars, cli_vars>>
    /\ kv_opened
    /\ root_version < MaxVersion
    /\ root_version' = root_version + 1
    /\ UNCHANGED <<pc, check_hashes_, private_keys_, active_config_version_, kv, durable,
                   entropy, now, response>>

\* The process is killed (or the machine loses power) and a new one is
\* constructed: of the writes since the last flush either all or none are
\* on disk.
Crash ==
    /\ UNCHANGED <<net_vars, cli_vars>>
    /\ is_initialized
    /\ pc' = "created"
    /\ FreshMemory
    /\ \E survived \in {kv, durable} : kv' = survived /\ durable' = survived
    /\ UNCHANGED <<entropy, now, root_version, response>>

\* A new process is constructed after the last one aborted.
Restart ==
    /\ UNCHANGED <<net_vars, cli_vars>>
    /\ pc = "dead"
    /\ pc' = "created"
    /\ UNCHANGED <<check_hashes_, private_keys_, active_config_version_, kv, durable,
                   entropy, now, root_version, response>>

\* The arguments /request/removekey is called with: the keys of the ledger,
\* a key nobody has, and strings that are no 32-byte hex.
RemoveArgs ==
    {to_hex(private_keys_[i].public_key) : i \in DOMAIN private_keys_}
        \cup {<<"0", "0">>, <<"z", "z">>, <<"0">>, <<"0", "0", "0", "0">>}

\* The answer reaches the caller (the timer, for an alarm).
answer_sent ==
    /\ UNCHANGED <<net_vars, cli_vars>>
    /\ response.to # "none"
    /\ response' = NoResponse
    /\ UNCHANGED <<pc, check_hashes_, private_keys_, active_config_version_, kv, durable,
                   entropy, now, root_version>>

\* The runner is an actor: it handles one event at a time, and the answer
\* of a request leaves before the next event is taken up.
Idle == response.to = "none"

Next ==
    \/ answer_sent
    \/ Idle /\ \E c \in BOOLEAN, t \in BOOLEAN : load_config(c, t)
    \/ Idle /\ custom_initialize
    \/ Idle /\ initialization_completed
    \/ Idle /\ alarm
    \/ Idle /\ \E magic \in Magics, conn \in Connections : receive_query(magic, conn)
    \/ Idle /\ \E method \in Methods, arg \in RemoveArgs : request_removekey(method, arg)
    \/ Idle /\ \E method \in Methods, key_type \in KeyTypes :
                    request_generatekey(method, key_type)
    \/ Idle /\ \E d \in TickSteps : Tick(d)
    \/ Idle /\ root_contract_update
    \/ Idle /\ Crash
    \/ Idle /\ Restart

Spec == Init /\ [][Next]_vars

\* ------------------------------------------- the store under direct use
\* set_to_db, get_from_db and del_from_db applied to keys and payloads of
\* any kind, and the bytes of the store altered behind the runner's back.
StoreKeys ==
    {ConfigDbKey, KeyDbKey(DerivePublic(secure_bytes(0))),
     KeyDbKey(DerivePublic(secure_bytes(1)))}

StorePayloads ==
    {<<>>, serialize_keyManagerDb_configV1(0),
     serialize_keyManagerDb_key(secure_bytes(0), FALSE, TRUE, 0, 0, key_ttl)}

\* set_to_db(key, value) and flush_db() on the open store.
store_set(key, value) ==
    /\ UNCHANGED <<net_vars, cli_vars>>
    /\ is_initialized
    /\ kv' = set_to_db(kv, key, value)
    /\ durable' = kv'
    /\ UNCHANGED <<pc, check_hashes_, private_keys_, active_config_version_, entropy, now,
                   root_version, response>>

\* del_from_db(key) and flush_db() on the open store.
store_erase(key) ==
    /\ UNCHANGED <<net_vars, cli_vars>>
    /\ is_initialized
    /\ key \in DOMAIN kv
    /\ kv' = del_from_db(kv, key)
    /\ durable' = kv'
    /\ UNCHANGED <<pc, check_hashes_, private_keys_, active_config_version_, entropy, now,
                   root_version, response>>

\* get_from_db(key) on the open store: the slice it returns, or the end of
\* the process.
store_get(key) ==
    /\ UNCHANGED <<net_vars, cli_vars>>
    /\ is_initialized
    /\ LET got == get_from_db(kv, key)
       IN  IF got.fatal
           THEN Abort
           ELSE /\ response' = [to |-> "get_from_db", from |-> "caller",
                                status |-> "returned", text |-> "", keys |-> got.value]
                /\ UNCHANGED <<pc, check_hashes_, private_keys_, active_config_version_,
                               kv, durable, entropy, now, root_version>>

\* A stored value as it was written.
Intact(v) == v.flipped = 0 /\ v.length = Len(v.payload) + SignatureSize

\* The lengths a stored value is cut to.
CutLengths == {0, SignatureSize - 1}

\* What a stored value can be turned into: any one byte of it altered, or
\* the value cut short.
Damages(v) ==
    {[v EXCEPT !.flipped = i] : i \in 1..v.length}
        \cup {[v EXCEPT !.length = n] : n \in {l \in CutLengths : l < v.length}}

\* Somebody alters an entry of the store on disk, while the process is down
\* or while it serves.
Tamper(key, damaged) ==
    /\ UNCHANGED <<net_vars, cli_vars>>
    /\ pc = "created" \/ is_initialized
    /\ key \in DOMAIN kv
    /\ damaged \in Damages(kv[key])
    /\ kv' = kv_set(kv, key, damaged)
    /\ durable' = kv'
    /\ UNCHANGED <<pc, check_hashes_, private_keys_, active_config_version_, entropy, now,
                   root_version, response>>

\* The alteration is the last thing that happens to the store before it is
\* read: one entry at a time is altered, and nothing is written over it.
AllIntact == \A k \in DOMAIN kv : Intact(kv[k])

StoreNext ==
    \/ answer_sent
    \/ Idle /\ load_config(TRUE, FALSE)
    \/ Idle /\ custom_initialize
    \/ Idle /\ initialization_completed
    \/ Idle /\ AllIntact
            /\ \E key \in StoreKeys, value \in StorePayloads : store_set(key, value)
    \/ Idle /\ \E key \in StoreKeys : store_get(key)
    \/ Idle /\ AllIntact /\ \E key \in StoreKeys : store_erase(key)
    \/ Idle /\ AllIntact
            /\ \E key \in DOMAIN kv : \E damaged \in Damages(kv[key]) : Tamper(key, damaged)
    \/ Idle /\ Crash
    \/ Idle /\ Restart

StoreSpec == Init /\ [][StoreNext]_vars

\* ---------------------------------------- bootstrap over entries of any kind
\* The runner generates keys, entries of any kind are written beside them,
\* and a new process replays the store.

\* The key of somebody who is not the node.
ForeignSeed == NodeSeed + 1

\* An entry whose name has a prefix the runner does not know.
UnknownDbKey == <<"peer", "_", "0", "0">>

BootKeys == StoreKeys \cup {UnknownDbKey}

\* A key record that is valid since a config version the network has not
\* reached.
BootPayloads ==
    StorePayloads
        \cup {serialize_keyManagerDb_key(secure_bytes(1), TRUE, FALSE, MaxVersion + 1, 0,
                                         key_ttl)}

\* Somebody without the node's key puts an entry into the store on disk
\* while no process runs, signed with a key of their own; one entry at a time
\* is of that kind.
store_forge(key, value) ==
    /\ UNCHANGED <<net_vars, cli_vars>>
    /\ pc = "created"
    /\ \A k \in DOMAIN kv : kv[k].signer = NodeSeed
    /\ kv' = kv_set(kv, key, Signed(value, ForeignSeed))
    /\ durable' = kv'
    /\ UNCHANGED <<pc, check_hashes_, private_keys_, active_config_version_, entropy, now,
                   root_version, response>>

\* A connection is allocated whatever the state of the runner.
allocate_inbound_connection_always(remote_app_hash) ==
    /\ UNCHANGED <<net_vars, cli_vars>>
    /\ pc # "dead"
    /\ response' = [to |-> "allocate_inbound_connection", from |-> remote_app_hash,
                    status |-> "allocated", text |-> "", keys |-> <<>>]
    /\ UNCHANGED <<pc, check_hashes_, private_keys_, active_config_version_, kv, durable,
                   entropy, now, root_version>>

\* KeyManagerRunner::allocate_inbound_connection: a null pointer before the
\* runner is initialized, a BaseInboundConnection after.
allocate_inbound_connection(remote_app_hash) ==
    /\ UNCHANGED <<net_vars, cli_vars>>
    /\ pc # "dead"
    /\ response' = [to |-> "allocate_inbound_connection", from |-> remote_app_hash,
                    status |-> IF ~is_initialized THEN "nullptr" ELSE "allocated",
                    text |-> "", keys |-> <<>>]
    /\ UNCHANGED <<pc, check_hashes_, private_keys_, active_config_version_, kv, durable,
                   entropy, now, root_version>>

BootNext ==
    \/ answer_sent
    \/ Idle /\ load_config(TRUE, FALSE)
    \/ Idle /\ custom_initialize
    \/ Idle /\ initialization_completed
    \/ Idle /\ alarm
    \/ Idle /\ receive_query("getWorkerPrivateKeys", "hW")
    \/ Idle /\ allocate_inbound_connection("hW")
    \/ Idle /\ \E key \in BootKeys, value \in BootPayloads : store_set(key, value)
    \/ Idle /\ \E key \in BootKeys : store_erase(key)
    \/ Idle /\ \E key \in BootKeys, value \in BootPayloads : store_forge(key, value)
    \/ Idle /\ Crash
    \/ Idle /\ Restart

BootSpec == Init /\ [][BootNext]_vars

\* ------------------------------------------- the attested tunnel at work
\* The other end has let go of the raw connection.
PeerClosed(s) == tunnel[Peer(s)].left_inner_ = "released"

\* wrap_tls_client and wrap_tls_server up to their first suspension: the
\* bridge, the PolicyHelper, the SSL stream (whose creation can fail), the
\* TlsPipeWorker and its start_up.
wrap_tls(s, cert_and_key, policy, source, destination, ssl_stream_ok) ==
    /\ tunnel[s].pos = "not_called"
    /\ tunnel' = [tunnel EXCEPT ![s] =
           IF ssl_stream_ok
           THEN [NotCalled EXCEPT !.pos = "await_peer_info",
                                  !.cert_and_key = cert_and_key, !.policy = policy,
                                  !.source = source, !.destination = destination,
                                  !.worker = "running", !.left_inner_ = "held",
                                  !.right_ = "present", !.left_ssl_ = "start"]
           ELSE [NotCalled EXCEPT !.pos = "failed",
                                  !.cert_and_key = cert_and_key, !.policy = policy,
                                  !.source = source, !.destination = destination,
                                  !.left_inner_ = "released",
                                  !.result = [NoResult EXCEPT !.status = "error",
                                                              !.error = "ssl stream"]]]
    /\ UNCHANGED <<runner_vars, cli_vars, raw, relay>>

\* cocoon::wrap_tls_client
wrap_tls_client(cert_and_key, policy, source, destination, ssl_stream_ok) ==
    wrap_tls("client", cert_and_key, policy, source, destination, ssl_stream_ok)

\* cocoon::wrap_tls_server
wrap_tls_server(cert_and_key, policy, source, destination, ssl_stream_ok) ==
    wrap_tls("server", cert_and_key, policy, source, destination, ssl_stream_ok)

\* left_ssl_.loop() in TlsPipeWorker::run: the handshake of the TLS engine
\* of side s, given what loop_read has read. The client opens, the server
\* answers with its certificate, the client verifies it and sends its own,
\* the server verifies that one; verification is PolicyHelper::validate.
left_ssl_loop(s, t, input) ==
    LET same == [is_error |-> FALSE, left_ssl_ |-> t.left_ssl_,
                 peer_info_promise_ |-> t.peer_info_promise_, output |-> <<>>]
    IN  IF input = <<>>
        THEN IF s = "client" /\ t.left_ssl_ = "start"
             THEN [same EXCEPT !.left_ssl_ = "hello_sent", !.output = <<ClientHello>>]
             ELSE same
        ELSE LET record == Head(input)
             IN  IF s = "server" /\ t.left_ssl_ = "start" /\ record.type = "ClientHello"
                 THEN [same EXCEPT !.left_ssl_ = "certificate_sent",
                                   !.output = <<Certificate(t.cert_and_key)>>]
                 ELSE IF /\ record.type = "Certificate"
                         /\ \/ s = "client" /\ t.left_ssl_ = "hello_sent"
                            \/ s = "server" /\ t.left_ssl_ = "certificate_sent"
                 THEN LET v == validate(t.policy, t.source, t.destination,
                                        record.quote, record.user_claims)
                      IN  IF v.r_attestation.is_ok
                          THEN [same EXCEPT
                                   !.left_ssl_ = "done",
                                   !.peer_info_promise_ = v.peer_info_promise_,
                                   !.output = IF s = "client"
                                              THEN <<Certificate(t.cert_and_key)>>
                                              ELSE <<>>]
                          ELSE [same EXCEPT
                                   !.is_error = TRUE, !.left_ssl_ = "failed",
                                   !.peer_info_promise_ = v.peer_info_promise_]
                 ELSE [same EXCEPT !.is_error = TRUE, !.left_ssl_ = "failed"]

\* The worker goes on although its loop has failed.
stop_skipped(t, lost) == t

\* Actor::stop() of the TlsPipeWorker: the actor and its members go, the raw
\* pipe with them. Whether a promise that was never fulfilled then fails
\* the task that awaits it is not decided by this code: `lost` is either.
stop(t, lost) ==
    [t EXCEPT !.worker = "stopped",
              !.left_inner_ = "released",
              !.right_ = IF @ = "present" THEN "unset" ELSE @,
              !.peer_info_promise_ = IF @.state = "unset" /\ lost
                                     THEN set_error("lost promise") ELSE @]

\* TlsPipeWorker::loop: do_loop (loop_read, run, loop_write), and stop() when
\* any of the three fails.
loop(s) ==
    /\ tunnel[s].worker = "running"
    /\ \/ raw[s] # <<>>
       \/ PeerClosed(s)
       \/ s = "client" /\ tunnel[s].left_ssl_ = "start"
    /\ LET t == tunnel[s]
           read_error == raw[s] = <<>> /\ PeerClosed(s)
           r == left_ssl_loop(s, t, raw[s])
           write_error == r.output # <<>> /\ PeerClosed(s)
           ran == [t EXCEPT !.left_ssl_ = r.left_ssl_,
                            !.peer_info_promise_ = r.peer_info_promise_,
                            !.validate_calls =
                                IF r.peer_info_promise_ # t.peer_info_promise_
                                THEN @ + 1 ELSE @]
       IN  IF read_error
           THEN /\ \E lost \in BOOLEAN : tunnel' = [tunnel EXCEPT ![s] = stop(t, lost)]
                /\ raw' = raw
           ELSE IF r.is_error \/ write_error
           THEN /\ \E lost \in BOOLEAN : tunnel' = [tunnel EXCEPT ![s] = stop(ran, lost)]
                /\ raw' = [raw EXCEPT ![s] = <<>>]
           ELSE /\ tunnel' = [tunnel EXCEPT ![s] = ran]
                /\ raw' = [raw EXCEPT ![s] = IF @ = <<>> THEN @ ELSE Tail(@),
                                      ![Peer(s)] = @ \o r.output]
    /\ UNCHANGED <<runner_vars, cli_vars, relay>>

\* The TLS engine puts a certificate that the policy accepts to
\* PolicyHelper::validate once more, on a connection whose peer it has
\* verified: validate builds an AttestedPeerInfo and calls set_value as it
\* did the first time.
validate_again(s, public_key) ==
    /\ tunnel[s].worker = "running"
    /\ tunnel[s].left_ssl_ = "done"
    /\ tunnel[s].validate_calls < MaxValidations
    /\ LET t == tunnel[s]
           v == validate(t.policy, t.source, t.destination,
                         Quote(public_key), UserClaims(public_key))
       IN  /\ v.r_attestation.is_ok
           /\ tunnel' = [tunnel EXCEPT ![s] =
                  [t EXCEPT !.peer_info_promise_ = resolve(@, v.peer_info_promise_),
                            !.validate_calls = @ + 1]]
    /\ UNCHANGED <<runner_vars, cli_vars, raw, relay>>

\* co_await std::move(t_peer_info) in wrap_tls_client and wrap_tls_server.
await_peer_info(s) ==
    /\ tunnel[s].pos = "await_peer_info"
    /\ tunnel[s].peer_info_promise_.state # "unset"
    /\ tunnel' = [tunnel EXCEPT ![s] =
           IF tunnel[s].peer_info_promise_.state = "value"
           THEN [@ EXCEPT !.pos = "await_extract_fd",
                          !.peer_info = tunnel[s].peer_info_promise_.value]
           ELSE [@ EXCEPT !.pos = "failed",
                          !.result = [NoResult EXCEPT
                                         !.status = "error",
                                         !.error = tunnel[s].peer_info_promise_.error]]]
    /\ UNCHANGED <<runner_vars, cli_vars, raw, relay>>

\* The worker is asked for the pipe without the peer info being awaited.
extract_fd_before_peer_info(s) ==
    /\ tunnel[s].pos \in {"await_peer_info", "await_extract_fd"}
    /\ tunnel' = [tunnel EXCEPT ![s] =
           IF tunnel[s].worker = "running" /\ tunnel[s].right_ = "present"
           THEN [@ EXCEPT !.pos = "returned", !.right_ = "moved",
                          !.result = [status |-> "ok", tls_pipe |-> TRUE,
                                      peer_info |-> tunnel[s].peer_info, error |-> ""]]
           ELSE [@ EXCEPT !.pos = "failed",
                          !.result = [NoResult EXCEPT !.status = "error",
                                                      !.error = "actor is gone"]]]
    /\ UNCHANGED <<runner_vars, cli_vars, raw, relay>>

\* co_await ask(proxy, &TlsPipeWorker::extract_fd) and the co_return: the
\* worker hands out right_ if it still runs; asking a stopped actor fails.
extract_fd(s) ==
    /\ tunnel[s].pos = "await_extract_fd"
    /\ tunnel' = [tunnel EXCEPT ![s] =
           IF tunnel[s].worker = "running" /\ tunnel[s].right_ = "present"
           THEN [@ EXCEPT !.pos = "returned", !.right_ = "moved",
                          !.result = [status |-> "ok", tls_pipe |-> TRUE,
                                      peer_info |-> tunnel[s].peer_info, error |-> ""]]
           ELSE [@ EXCEPT !.pos = "failed",
                          !.result = [NoResult EXCEPT !.status = "error",
                                                      !.error = "actor is gone"]]]
    /\ UNCHANGED <<runner_vars, cli_vars, raw, relay>>

TunnelNext ==
    \/ \E cert_and_key \in ClaimedKeys, policy \in Policies, source \in Addresses,
          ssl_stream_ok \in BOOLEAN :
            \E destination \in Addresses \ {source} :
                wrap_tls_client(cert_and_key, policy, source, destination, ssl_stream_ok)
    \/ \E cert_and_key \in ClaimedKeys, policy \in Policies, source \in Addresses,
          ssl_stream_ok \in BOOLEAN :
            \E destination \in Addresses \ {source} :
                wrap_tls_server(cert_and_key, policy, source, destination, ssl_stream_ok)
    \/ \E s \in Sides : loop(s)
    \/ \E s \in Sides, public_key \in ClaimedKeys : validate_again(s, public_key)
    \/ \E s \in Sides : await_peer_info(s)
    \/ \E s \in Sides : extract_fd(s)

\* Actors that have an event are run and tasks whose awaited result is there
\* are resumed: the scheduler starves none of them.
TunnelSpec ==
    /\ Init
    /\ [][TunnelNext]_vars
    /\ \A s \in Sides :
          WF_vars(loop(s)) /\ WF_vars(await_peer_info(s)) /\ WF_vars(extract_fd(s))

\* --------------------------------------------------- the relay at work
\* What the two remote ends write, byte by byte: every byte differs from
\* every other, so a byte out of place or from the wrong side shows.
LeftStream == [i \in 1..MaxStream |-> i]

RightStream == [i \in 1..MaxStream |-> 100 + i]

Min(a, b) == IF a <= b THEN a ELSE b

\* td::Pipe::flush_read fails on a pipe that was closed and has nothing left.
flush_read_fails(pipe) == pipe.closed /\ pipe.readable = <<>>

\* td::Pipe::flush_read: what is readable goes to the input buffer.
flush_read(pipe) ==
    [pipe EXCEPT !.input_buffer = @ \o pipe.readable, !.readable = <<>>]

\* proxy_sockets(from, to): bytes of from's input buffer go, in order, to
\* to's output buffer, as many as that buffer can absorb.
proxy_sockets(from, to) ==
    LET n == Min(Len(from.input_buffer), BufferBound - Len(to.output_buffer))
    IN  [from |-> [from EXCEPT !.input_buffer = SubSeq(@, n + 1, Len(@))],
         to |-> [to EXCEPT !.output_buffer = @ \o SubSeq(from.input_buffer, 1, n)]]

\* td::Pipe::flush_write: the remote end takes `accepted` bytes at most.
flush_write(pipe, accepted) ==
    LET n == Min(accepted, Len(pipe.output_buffer))
    IN  [pipe EXCEPT !.received = @ \o SubSeq(pipe.output_buffer, 1, n),
                     !.output_buffer = SubSeq(@, n + 1, Len(@))]

\* Each side is given its own bytes back.
proxy_both_ways_echoed(left, right) ==
    LET l == proxy_sockets(left, left)
        r == proxy_sockets(right, right)
    IN  [left_ |-> [l.to EXCEPT !.input_buffer = l.from.input_buffer],
         right_ |-> [r.to EXCEPT !.input_buffer = r.from.input_buffer]]

\* proxy_sockets(left_, right_); proxy_sockets(right_, left_);
proxy_both_ways(left, right) ==
    LET a == proxy_sockets(left, right)
        b == proxy_sockets(a.to, a.from)
    IN  [left_ |-> b.to, right_ |-> b.from]

\* ProxyWorker::finish: the worker and its pipes go, with what they buffered.
finish(pipe) ==
    [pipe EXCEPT !.readable = <<>>, !.input_buffer = <<>>, !.output_buffer = <<>>]

\* cocoon::proxy: the ProxyWorker is spawned over the two pipes.
proxy ==
    /\ relay.status = "none"
    /\ relay' = [relay EXCEPT !.status = "running"]
    /\ UNCHANGED <<runner_vars, cli_vars, tunnel, raw>>

\* td::Pipe::flush_write fails on a closed pipe that has bytes to send.
flush_write_fails(pipe) == pipe.closed /\ pipe.output_buffer # <<>>

\* The worker is finished with the status of the call that failed.
Finished(result, left, right) ==
    [status |-> "finished", result |-> result, left_ |-> finish(left),
     right_ |-> finish(right)]

\* A failure of flush_write is not looked at.
task_loop_once_steps_reads_only(left, right, accept_left, accept_right) ==
    IF flush_read_fails(left)
    THEN Finished("left_.flush_read", left, right)
    ELSE IF flush_read_fails(right)
    THEN Finished("right_.flush_read", flush_read(left), right)
    ELSE LET both == proxy_both_ways(flush_read(left), flush_read(right))
         IN  [status |-> "running", result |-> "pending",
              left_ |-> flush_write(both.left_, accept_left),
              right_ |-> flush_write(both.right_, accept_right)]

\* The body of ProxyWorker::task_loop_once, call by call; the co_await that
\* fails ends it, and finish is given that status.
task_loop_once_steps(left, right, accept_left, accept_right) ==
    IF flush_read_fails(left)
    THEN Finished("left_.flush_read", left, right)
    ELSE IF flush_read_fails(right)
    THEN Finished("right_.flush_read", flush_read(left), right)
    ELSE LET both == proxy_both_ways(flush_read(left), flush_read(right))
         IN  IF flush_write_fails(both.left_)
             THEN Finished("left_.flush_write", both.left_, both.right_)
             ELSE IF flush_write_fails(both.right_)
             THEN Finished("right_.flush_write",
                           flush_write(both.left_, accept_left), both.right_)
             ELSE [status |-> "running", result |-> "pending",
                   left_ |-> flush_write(both.left_, accept_left),
                   right_ |-> flush_write(both.right_, accept_right)]

\* ProxyWorker::task_loop_once, and finish when a flush fails.
task_loop_once(accept_left, accept_right) ==
    /\ relay.status = "running"
    /\ relay' = task_loop_once_steps(relay.left_, relay.right_, accept_left, accept_right)
    /\ UNCHANGED <<runner_vars, cli_vars, tunnel, raw>>

\* The remote end of the left pipe writes its next byte.
remote_write_left ==
    /\ relay.status # "finished"
    /\ ~relay.left_.closed
    /\ Len(relay.left_.written) < MaxStream
    /\ LET byte == LeftStream[Len(relay.left_.written) + 1]
       IN  relay' = [relay EXCEPT !.left_.written = Append(@, byte),
                                  !.left_.readable = Append(@, byte)]
    /\ UNCHANGED <<runner_vars, cli_vars, tunnel, raw>>

\* The remote end of the right pipe writes its next byte.
remote_write_right ==
    /\ relay.status # "finished"
    /\ ~relay.right_.closed
    /\ Len(relay.right_.written) < MaxStream
    /\ LET byte == RightStream[Len(relay.right_.written) + 1]
       IN  relay' = [relay EXCEPT !.right_.written = Append(@, byte),
                                  !.right_.readable = Append(@, byte)]
    /\ UNCHANGED <<runner_vars, cli_vars, tunnel, raw>>

\* A remote end closes its pipe.
remote_close(left) ==
    /\ relay.status = "running"
    /\ IF left
       THEN ~relay.left_.closed /\ relay' = [relay EXCEPT !.left_.closed = TRUE]
       ELSE ~relay.right_.closed /\ relay' = [relay EXCEPT !.right_.closed = TRUE]
    /\ UNCHANGED <<runner_vars, cli_vars, tunnel, raw>>

RelayNext ==
    \/ proxy
    \/ \E accept_left \in 0..BufferBound, accept_right \in 0..BufferBound :
          task_loop_once(accept_left, accept_right)
    \/ remote_write_left
    \/ remote_write_right
    \/ \E left \in BOOLEAN : remote_close(left)

RelaySpec == Init /\ [][RelayNext]_vars

\* ------------------------------------- the handlers, one statement at a time
\* The position of a handler that has not returned yet: which handler, how
\* far it is, and the argument it was called with.
Running(handler, position, text, keys) ==
    [to |-> handler, from |-> "handler", status |-> position, text |-> text, keys |-> keys]

handler_running == response.from = "handler"

\* KeyManagerRunner::alarm up to its sweep loop: the early return, the
\* transaction begun on kv_, the version advance.
alarm_begin ==
    /\ UNCHANGED <<net_vars, cli_vars>>
    /\ pc # "dead"
    /\ IF alarm_returns_early
       THEN /\ response' = AlarmReturned
            /\ UNCHANGED <<pc, check_hashes_, private_keys_, active_config_version_, kv,
                           durable, entropy, now, root_version>>
       ELSE IF ~kv_opened
       THEN Abort
       ELSE LET advance == root_version > active_config_version_
            IN  /\ alarm_cycle(machine, active_config_version_, root_version,
                               now).m.entropy <= MaxSeeds
                /\ active_config_version_' =
                       IF advance THEN root_version ELSE active_config_version_
                /\ kv' = IF advance THEN config_to_db(kv, root_version) ELSE kv
                /\ response' = Running("alarm", "sweep", "", <<>>)
                /\ UNCHANGED <<pc, check_hashes_, private_keys_, durable, entropy, now,
                               root_version>>

ExpiredRecords == {i \in DOMAIN private_keys_ : alarm_expired(private_keys_[i], now)}

\* One iteration of the sweep loop that erases: the first expired record
\* leaves the store and the list.
alarm_sweep_one ==
    /\ UNCHANGED <<net_vars, cli_vars>>
    /\ response = Running("alarm", "sweep", "", <<>>)
    /\ ExpiredRecords # {}
    /\ LET i == CHOOSE j \in ExpiredRecords : \A l \in ExpiredRecords : j <= l
       IN  /\ kv' = kv_erase(kv, KeyDbKey(private_keys_[i].public_key))
           /\ private_keys_' = SubSeq(private_keys_, 1, i - 1)
                                 \o SubSeq(private_keys_, i + 1, Len(private_keys_))
    /\ UNCHANGED <<pc, check_hashes_, active_config_version_, durable, entropy, now,
                   root_version, response>>

\* if (w_cnt == 0) generate_key(false, true), with the counts the sweep
\* loop has left.
alarm_generate_workers ==
    /\ UNCHANGED <<net_vars, cli_vars>>
    /\ response = Running("alarm", "sweep", "", <<>>)
    /\ ExpiredRecords = {}
    /\ LET w_cnt == Cardinality({i \in DOMAIN private_keys_ : private_keys_[i].for_workers})
           m == IF w_cnt = 0
                THEN generate_key(machine, FALSE, TRUE, active_config_version_, now)
                ELSE machine
       IN  /\ private_keys_' = m.private_keys_
           /\ kv' = m.kv
           /\ entropy' = m.entropy
    /\ response' = Running("alarm", "workers", "", <<>>)
    /\ UNCHANGED <<pc, check_hashes_, active_config_version_, durable, now, root_version>>

\* if (p_cnt == 0) generate_key(true, false): the worker key generated just
\* before is for workers only and does not count.
alarm_generate_proxies ==
    /\ UNCHANGED <<net_vars, cli_vars>>
    /\ response = Running("alarm", "workers", "", <<>>)
    /\ LET p_cnt == Cardinality({i \in DOMAIN private_keys_ : private_keys_[i].for_proxies})
           m == IF p_cnt = 0
                THEN generate_key(machine, TRUE, FALSE, active_config_version_, now)
                ELSE machine
       IN  /\ private_keys_' = m.private_keys_
           /\ kv' = m.kv
           /\ entropy' = m.entropy
    /\ response' = Running("alarm", "proxies", "", <<>>)
    /\ UNCHANGED <<pc, check_hashes_, active_config_version_, durable, now, root_version>>

\* commit_transaction and flush: the alarm returns.
alarm_commit ==
    /\ UNCHANGED <<net_vars, cli_vars>>
    /\ response = Running("alarm", "proxies", "", <<>>)
    /\ durable' = kv
    /\ response' = AlarmReturned
    /\ UNCHANGED <<pc, check_hashes_, private_keys_, active_config_version_, kv, entropy,
                   now, root_version>>

\* The /request/generatekey handler up to the set_to_db of generate_key:
\* the entry is in the store and the record is not in the list yet.
generatekey_begin(method, key_type) ==
    /\ UNCHANGED <<net_vars, cli_vars>>
    /\ is_initialized
    /\ LET r == IF method # "POST" /\ method # "post"
                THEN [m |-> machine, flush |-> FALSE,
                      text |-> "generatekey must be a post request"]
                ELSE http_generate_key(machine, key_type, now)
       IN  /\ r.m.entropy <= MaxSeeds
           /\ kv' = r.m.kv
           /\ response' = IF r.flush
                          THEN Running("/request/generatekey", "stored", key_type, <<>>)
                          ELSE [to |-> "/request/generatekey", from |-> method,
                                status |-> "ok", text |-> r.text, keys |-> <<>>]
    /\ UNCHANGED <<pc, check_hashes_, private_keys_, active_config_version_, durable,
                   entropy, now, root_version>>

\* private_keys_.push_back at the end of generate_key.
generatekey_push_back ==
    /\ UNCHANGED <<net_vars, cli_vars>>
    /\ response.to = "/request/generatekey"
    /\ response.from = "handler"
    /\ response.status = "stored"
    /\ LET r == http_generate_key(machine, response.text, now)
       IN  /\ private_keys_' = r.m.private_keys_
           /\ entropy' = r.m.entropy
    /\ response' = Running("/request/generatekey", "appended", response.text, <<>>)
    /\ UNCHANGED <<pc, check_hashes_, active_config_version_, kv, durable, now,
                   root_version>>

\* flush_db and the answer of http_generate_key.
generatekey_flush ==
    /\ UNCHANGED <<net_vars, cli_vars>>
    /\ response.to = "/request/generatekey"
    /\ response.from = "handler"
    /\ response.status = "appended"
    /\ durable' = kv
    /\ response' = [to |-> "/request/generatekey", from |-> "POST", status |-> "ok",
                    text |-> "key generated", keys |-> <<>>]
    /\ UNCHANGED <<pc, check_hashes_, private_keys_, active_config_version_, kv, entropy,
                   now, root_version>>

\* The /request/removekey handler up to the kv_->erase of remove_key: the
\* entry has left the store and the record is still in the list.
removekey_begin(method, pub_key) ==
    /\ UNCHANGED <<net_vars, cli_vars>>
    /\ is_initialized
    /\ LET r == IF method # "POST" /\ method # "post"
                THEN [m |-> machine, text |-> "removekey must be a post request"]
                ELSE http_remove_key(machine, pub_key)
       IN  /\ kv' = r.m.kv
           /\ response' = IF r.m.private_keys_ # private_keys_
                          THEN Running("/request/removekey", "erased", "", pub_key)
                          ELSE [to |-> "/request/removekey", from |-> method,
                                status |-> "ok", text |-> r.text, keys |-> <<>>]
    /\ UNCHANGED <<pc, check_hashes_, private_keys_, active_config_version_, durable,
                   entropy, now, root_version>>

\* private_keys_.erase(it) and the answer of http_remove_key.
removekey_erase ==
    /\ UNCHANGED <<net_vars, cli_vars>>
    /\ response.to = "/request/removekey"
    /\ response.from = "handler"
    /\ private_keys_' = http_remove_key(machine, response.keys).m.private_keys_
    /\ response' = [to |-> "/request/removekey", from |-> "POST", status |-> "ok",
                    text |-> "key removed", keys |-> <<>>]
    /\ UNCHANGED <<pc, check_hashes_, active_config_version_, kv, durable, entropy, now,
                   root_version>>

\* A query is handed to receive_query whether or not a handler is running.
deliver_query_any_time(magic, conn) == receive_query(magic, conn)

\* The actor takes a query out of its mailbox once the handler before it
\* has returned and its answer has left.
deliver_query(magic, conn) == Idle /\ receive_query(magic, conn)

StepNext ==
    \/ answer_sent /\ ~handler_running
    \/ Idle /\ \E c \in BOOLEAN, t \in BOOLEAN : load_config(c, t)
    \/ Idle /\ custom_initialize
    \/ Idle /\ initialization_completed
    \/ Idle /\ alarm_begin
    \/ alarm_sweep_one
    \/ alarm_generate_workers
    \/ alarm_generate_proxies
    \/ alarm_commit
    \/ \E magic \in Magics, conn \in Connections : deliver_query(magic, conn)
    \/ Idle /\ \E method \in Methods, arg \in RemoveArgs : removekey_begin(method, arg)
    \/ removekey_erase
    \/ Idle /\ \E method \in Methods, key_type \in KeyTypes :
                    generatekey_begin(method, key_type)
    \/ generatekey_push_back
    \/ generatekey_flush
    \/ Idle /\ \E d \in TickSteps : Tick(d)
    \/ Idle /\ root_contract_update
    \/ Idle /\ Crash
    \/ Idle /\ Restart

StepSpec == Init /\ [][StepNext]_vars

\* ------------------------------------------------------------- unstake
\* The command has returned (or the process has exited) before step 3.
GaveUp(why) == [unstake EXCEPT !.pos = "ended", !.gave_up = why]

\* unstakeCommand up to its branch on the state: the stats are fetched, the
\* first proxy is taken, its state read (0 without one), its escrow looked at.
unstake_fetch(fetch_ok, has_proxy, state, escrow) ==
    /\ unstake.pos = "start"
    /\ LET st == IF state = StateMissing THEN SC_STATE_ACTIVE ELSE state
       IN  unstake' =
              IF ~fetch_ok THEN GaveUp("no stats")
              ELSE IF ~has_proxy THEN GaveUp("no proxy")
              ELSE IF escrow <= 0 /\ st = SC_STATE_ACTIVE THEN GaveUp("no deposit")
              ELSE IF st = SC_STATE_ACTIVE
              THEN [unstake EXCEPT !.pos = "confirm", !.state = st]
              ELSE IF st = SC_STATE_CLOSING
              THEN [unstake EXCEPT !.pos = "poll", !.state = st]
              ELSE [unstake EXCEPT !.pos = "confirm", !.state = st, !.closed = "state"]
    /\ UNCHANGED <<runner_vars, net_vars, payout, children, output, retry>>

\* confirm(...) in the ACTIVE and in the CLOSED branch.
unstake_confirm(proceed) ==
    /\ unstake.pos = "confirm"
    /\ unstake' =
          IF ~proceed THEN GaveUp("declined")
          ELSE IF unstake.state = SC_STATE_ACTIVE
          THEN [unstake EXCEPT !.pos = "close"]
          ELSE [unstake EXCEPT !.pos = "withdraw"]
    /\ UNCHANGED <<runner_vars, net_vars, payout, children, output, retry>>

\* Step 1/3: sendRequest(base, 'close', ...).
unstake_close(ok) ==
    /\ unstake.pos = "close"
    /\ unstake' =
          IF ~ok THEN [GaveUp("close failed") EXCEPT !.sent = Append(@, "close")]
          ELSE [unstake EXCEPT !.pos = "poll", !.sent = Append(@, "close")]
    /\ UNCHANGED <<runner_vars, net_vars, payout, children, output, retry>>

\* What one fetch of pollState can give: an error, stats without the
\* proxy, or the proxy in a state.
PollOutcomes == {"error", "absent", "active", "closing", "closed"}

\* pollState, one turn of its loop: null once the deadline has passed; the
\* proxy gone from the stats counts as closed and removed; a proxy whose
\* state has reached CLOSED is returned; otherwise the loop sleeps.
pollState(outcome) ==
    /\ unstake.pos = "poll"
    /\ unstake' =
          IF ~(unstake.elapsed < PollTimeoutMs) THEN GaveUp("timeout")
          ELSE IF outcome = "absent"
          THEN [unstake EXCEPT !.pos = "step3", !.closed = "removed",
                               !.withdraw = "automatic"]
          ELSE IF outcome = "closed"
          THEN [unstake EXCEPT !.pos = "withdraw", !.closed = "state"]
          ELSE [unstake EXCEPT !.elapsed = @ + PollIntervalMs]
    /\ UNCHANGED <<runner_vars, net_vars, payout, children, output, retry>>

\* What the withdraw request can answer.
WithdrawAnswers == {"request sent", "proxy not found", "error"}

\* Every answer to the withdraw request lets the command go on.
unstake_withdraw_failure_ignored(answer) ==
    /\ unstake.pos = "withdraw"
    /\ unstake' =
          [unstake EXCEPT !.pos = "step3", !.sent = Append(@, "withdraw"),
                          !.withdraw = IF answer = "request sent" THEN "sent"
                                       ELSE IF answer = "proxy not found" THEN "settled"
                                       ELSE "failed"]
    /\ UNCHANGED <<runner_vars, net_vars, payout, children, output, retry>>

\* Step 2/3: sendRequest(base, 'withdraw', ...) and what the three branches
\* make of its answer.
unstake_withdraw(answer) ==
    /\ unstake.pos = "withdraw"
    /\ unstake' =
          IF answer = "request sent"
          THEN [unstake EXCEPT !.pos = "step3", !.sent = Append(@, "withdraw"),
                               !.withdraw = "sent"]
          ELSE IF answer = "proxy not found"
          THEN [unstake EXCEPT !.pos = "step3", !.sent = Append(@, "withdraw"),
                               !.withdraw = "settled"]
          ELSE [GaveUp("withdraw failed") EXCEPT !.sent = Append(@, "withdraw"),
                                                 !.withdraw = "failed"]
    /\ UNCHANGED <<runner_vars, net_vars, payout, children, output, retry>>

\* Step 3/3: transferCocoonToOwner is called; it reports whether it sent.
unstake_transfer(transferred) ==
    /\ unstake.pos = "step3"
    /\ unstake' = [unstake EXCEPT !.pos = "ended",
                                  !.transfer = IF transferred THEN "sent" ELSE "failed"]
    /\ UNCHANGED <<runner_vars, net_vars, payout, children, output, retry>>

\* The command is run again.
unstake_again ==
    /\ unstake.pos = "ended"
    /\ unstake' = NoUnstake
    /\ UNCHANGED <<runner_vars, net_vars, payout, children, output, retry>>

UnstakeNext ==
    \/ \E fetch_ok \in BOOLEAN, has_proxy \in BOOLEAN,
          state \in {StateMissing, SC_STATE_ACTIVE, SC_STATE_CLOSING, SC_STATE_CLOSED},
          escrow \in {0, 1} :
            unstake_fetch(fetch_ok, has_proxy, state, escrow)
    \/ \E proceed \in BOOLEAN : unstake_confirm(proceed)
    \/ \E ok \in BOOLEAN : unstake_close(ok)
    \/ \E outcome \in PollOutcomes : pollState(outcome)
    \/ \E answer \in WithdrawAnswers : unstake_withdraw(answer)
    \/ \E transferred \in BOOLEAN : unstake_transfer(transferred)
    \/ unstake_again

UnstakeSpec == Init /\ [][UnstakeNext]_vars

\* ------------------------------------------------- withdraw and cashout
Digits == <<"0", "1", "2", "3", "4", "5", "6", "7", "8", "9">>

IsDigit(c) == \E d \in 1..10 : Digits[d] = c

DigitValue(c) == (CHOOSE d \in 1..10 : Digits[d] = c) - 1

\* String.prototype.toLowerCase on the letters the arguments are made of.
toLowerCase(str) ==
    [i \in 1..Len(str) |->
        IF str[i] = "M" THEN "m" ELSE IF str[i] = "A" THEN "a"
        ELSE IF str[i] = "X" THEN "x" ELSE str[i]]

\* isNaN(parseFloat(str)): parseFloat reads an optional sign and then needs a
\* digit, or a point followed by a digit; whatever follows is ignored.
parseFloatIsNaN(str) ==
    LET t == IF str # <<>> /\ str[1] = "-" THEN Tail(str) ELSE str
    IN  ~ \/ (t # <<>> /\ IsDigit(t[1]))
          \/ (Len(t) >= 2 /\ t[1] = "." /\ IsDigit(t[2]))

RECURSIVE StripMinus(_)
\* toNano: while (src.startsWith('-')) { neg = !neg; src = src.slice(1) }
StripMinus(str) ==
    IF str # <<>> /\ str[1] = "-"
    THEN LET r == StripMinus(Tail(str)) IN [neg |-> ~r.neg, src |-> r.src]
    ELSE [neg |-> FALSE, src |-> str]

RECURSIVE BigInt(_)
\* BigInt of a string of decimal digits; the empty string gives 0.
BigInt(str) ==
    IF str = <<>> THEN 0
    ELSE 10 * BigInt(SubSeq(str, 1, Len(str) - 1)) + DigitValue(str[Len(str)])

RECURSIVE PadRight(_)
\* while (frac.length < 9) frac += '0'
PadRight(frac) == IF Len(frac) < 9 THEN PadRight(Append(frac, "0")) ELSE frac

Thrown == [ok |-> FALSE, value |-> 0]

\* toNano of a string: the sign, the whole part and up to nine decimals;
\* it throws on a lone point, a second point, more than nine decimals and
\* on anything that is not a digit.
toNano(str) ==
    LET s == StripMinus(str)
        points == {i \in 1..Len(s.src) : s.src[i] = "."}
        point == IF points = {} THEN Len(s.src) + 1 ELSE CHOOSE i \in points : TRUE
        whole == SubSeq(s.src, 1, point - 1)
        frac == SubSeq(s.src, point + 1, Len(s.src))
    IN  IF \/ s.src = <<".">>
           \/ Cardinality(points) > 1
           \/ Len(frac) > 9
           \/ \E i \in 1..Len(s.src) : i \notin points /\ ~IsDigit(s.src[i])
        THEN Thrown
        ELSE LET r == BigInt(whole) * 1000000000 + BigInt(PadRight(frac))
             IN  [ok |-> TRUE, value |-> IF s.neg THEN 0 - r ELSE r]

SC_RESERVE == toNano(<<"0", ".", "0", "5">>).value

\* The command is over before anything was sent.
PayoutEnds(how) == [payout EXCEPT !.pos = "ended", !.exit = how]

\* The amount is compared with the balance without the reserve.
CalculateAmountWithoutReserve(isMax, amountArg, balance) ==
    IF isMax THEN [exit |-> "none", sendAmount |-> balance - SC_RESERVE]
    ELSE LET n == toNano(amountArg)
         IN  IF ~n.ok THEN [exit |-> "threw", sendAmount |-> 0]
             ELSE IF n.value > balance
             THEN [exit |-> "exit_1", sendAmount |-> n.value]
             ELSE [exit |-> "none", sendAmount |-> n.value]

\* "Calculate amount": the balance less the reserve for max, else the
\* argument in nanoTON, refused when it and the reserve exceed the balance.
CalculateAmount(isMax, amountArg, balance) ==
    IF isMax THEN [exit |-> "none", sendAmount |-> balance - SC_RESERVE]
    ELSE LET n == toNano(amountArg)
         IN  IF ~n.ok THEN [exit |-> "threw", sendAmount |-> 0]
             ELSE IF n.value + SC_RESERVE > balance
             THEN [exit |-> "exit_1", sendAmount |-> n.value]
             ELSE [exit |-> "none", sendAmount |-> n.value]

\* withdrawCommand and cashoutCommand up to the confirmation: the argument
\* is looked at, the destination and the wallet file are read, the balance
\* is fetched and the amount calculated.  Without an argument withdraw takes
\* max; cashout is always given one.
payout_prepare(command, amountArg, destination_ok, wallet_ok, fetch_ok, balance) ==
    /\ payout.pos = "start"
    /\ command = "cashout" => amountArg # <<>>
    /\ LET isMax == IF command = "withdraw"
                    THEN amountArg = <<>> \/ toLowerCase(amountArg) = <<"m", "a", "x">>
                    ELSE toLowerCase(amountArg) = <<"m", "a", "x">>
           c == CalculateAmount(isMax, amountArg, balance)
           p == [payout EXCEPT !.command = command, !.isMax = isMax]
       IN  payout' =
              IF ~isMax /\ parseFloatIsNaN(amountArg)
              THEN [p EXCEPT !.pos = "ended", !.exit = "exit_1"]
              ELSE IF (command = "cashout" /\ ~destination_ok) \/ ~wallet_ok \/ ~fetch_ok
              THEN [p EXCEPT !.pos = "ended", !.exit = "exit_1"]
              ELSE IF c.exit # "none"
              THEN [p EXCEPT !.pos = "ended", !.exit = c.exit, !.balance = balance]
              ELSE IF c.sendAmount <= 0
              THEN [p EXCEPT !.pos = "ended", !.exit = "returned",
                             !.balance = balance, !.sendAmount = c.sendAmount]
              ELSE [p EXCEPT !.pos = "confirm", !.balance = balance,
                             !.sendAmount = c.sendAmount]
    /\ UNCHANGED <<runner_vars, net_vars, unstake, children, output, retry>>

\* confirm(...): a refusal ends the command.
payout_confirm(proceed) ==
    /\ payout.pos = "confirm"
    /\ payout' = IF proceed THEN [payout EXCEPT !.pos = "send", !.proceed = TRUE]
                 ELSE PayoutEnds("returned")
    /\ UNCHANGED <<runner_vars, net_vars, unstake, children, output, retry>>

\* sendFromCocoonWallet / sendFromOwnerWallet with sendAmount; a failure
\* before the message went out leaves nothing sent and exits with 1.
payout_send(delivered) ==
    /\ payout.pos = "send"
    /\ payout' =
          IF delivered
          THEN [payout EXCEPT !.pos = "ended", !.exit = "returned",
                              !.sent = Append(@, payout.sendAmount)]
          ELSE PayoutEnds("exit_1")
    /\ UNCHANGED <<runner_vars, net_vars, unstake, children, output, retry>>

\* The command is run again.
payout_again ==
    /\ payout.pos = "ended"
    /\ payout' = NoPayout
    /\ UNCHANGED <<runner_vars, net_vars, unstake, children, output, retry>>

\* The arguments tried: max in both cases, none, not a number, zero, whole
\* and decimal amounts, a negative and a doubly negative amount, a number
\* followed by a letter, a lone point, two points.
AmountArgs ==
    { <<"m", "a", "x">>, <<"M", "A", "X">>, <<>>, <<"x">>, <<"0">>, <<"1">>,
      <<"0", ".", "0", "5">>, <<".", "1">>, <<"0", ".", "9", "5">>,
      <<"-", "1">>, <<"-", "-", "1">>, <<"1", "x">>, <<".">>, <<"1", ".", ".">>,
      <<"0", ".", "0", "0", "0", "0", "0", "0", "0", "0", "0", "1">> }

\* The balances tried, in nanoTON: none, just under, at and just over the
\* reserve, and around one TON plus the reserve.
Balances ==
    {0, SC_RESERVE - 1, SC_RESERVE, SC_RESERVE + 1, 100000000,
     1000000000, 1000000000 + SC_RESERVE - 1, 1000000000 + SC_RESERVE}

PayoutNext ==
    \/ \E command \in {"withdraw", "cashout"}, amountArg \in AmountArgs,
          destination_ok \in BOOLEAN, wallet_ok \in BOOLEAN, fetch_ok \in BOOLEAN,
          balance \in Balances :
            payout_prepare(command, amountArg, destination_ok, wallet_ok, fetch_ok, balance)
    \/ \E proceed \in BOOLEAN : payout_confirm(proceed)
    \/ \E delivered \in BOOLEAN : payout_send(delivered)
    \/ payout_again

PayoutSpec == Init /\ [][PayoutNext]_vars

\* ---------------------------------------------- children and shutdown
\* The parent process is still there.
ParentAlive == children.exit = "none"

\* The children pushed to processes.
Spawned == {children.processes[i] : i \in 1..Len(children.processes)}

\* p.exitCode === null: the child runs, or a signal ended it (the exit code
\* of a child ended by a signal stays null, its signalCode is set).
ExitCodeIsNull(c) == children.status[c] \in {"running", "signalled"}

\* setupSignalHandlers: one handler per signal, on the first call only.
setupSignalHandlers(ch) ==
    IF ch.signalHandlersRegistered THEN [ch EXCEPT !.setup_calls = @ + 1]
    ELSE [ch EXCEPT !.signalHandlersRegistered = TRUE, !.handlers = 1,
                    !.setup_calls = @ + 1]

\* startClient: the cleanup handler is set up, then the router and the
\* client runner are spawned, in one synchronous run.
startClient ==
    /\ ParentAlive
    /\ children.processes = <<>>
    /\ children.setup_calls < MaxSetupCalls
    /\ children' =
          [setupSignalHandlers(children) EXCEPT
              !.processes = <<"router", "client">>,
              !.status = [c \in Children |-> "running"]]
    /\ UNCHANGED <<runner_vars, net_vars, unstake, payout, output, retry>>

\* setupSignalHandlers is called once more.
setup_again ==
    /\ ParentAlive
    /\ children.setup_calls < MaxSetupCalls
    /\ children' = setupSignalHandlers(children)
    /\ UNCHANGED <<runner_vars, net_vars, unstake, payout, output, retry>>

\* The then() of the shutdown's Promise.all: the timeout is cleared, the
\* cleanup runs, the parent exits with 0.
AllExited(ch) ==
    [ch EXCEPT !.timeout = "cleared", !.cleanups = @ + 1, !.exit = "0"]

\* shutdown: nothing when already shutting down; else SIGTERM to every
\* process (it reaches those still running), the 5 s timeout is armed, and
\* the exit of every process whose exitCode is null is awaited.
shutdown(ch) ==
    IF ch.shuttingDown THEN ch
    ELSE LET waiting == {c \in Spawned : ExitCodeIsNull(c)}
             s == [ch EXCEPT !.shuttingDown = TRUE, !.shutdowns = @ + 1,
                             !.sigterm = @ \cup {c \in Spawned : ch.status[c] = "running"},
                             !.waiting = waiting, !.timeout = "armed"]
         IN  IF waiting = {} THEN AllExited(s) ELSE s

\* SIGINT or SIGTERM reaches the parent: the handler runs once per handler
\* registered; without a handler the signal ends the parent.
signal(sig) ==
    /\ ParentAlive
    /\ children.signals < MaxSignals
    /\ children' =
          IF children.handlers = 0
          THEN [children EXCEPT !.signals = @ + 1, !.exit = "signal"]
          ELSE LET once == shutdown([children EXCEPT !.signals = @ + 1])
               IN  IF children.handlers = 1 \/ once.exit # "none" THEN once
                   ELSE shutdown(once)
    /\ UNCHANGED <<runner_vars, net_vars, unstake, payout, output, retry>>

\* A child ends, with an exit code or by a signal (its own crash, or the
\* SIGTERM it was sent).  During a shutdown its exit resolves the promise
\* waiting for it, and the last one makes the parent exit.
child_exit(c, how) ==
    /\ children.status[c] = "running"
    /\ LET s == [children EXCEPT !.status[c] = how, !.waiting = @ \ {c}]
       IN  children' =
              IF ParentAlive /\ children.shuttingDown /\ c \in children.waiting
                 /\ s.waiting = {}
              THEN AllExited(s)
              ELSE IF ParentAlive THEN s
              ELSE [children EXCEPT !.status[c] = how]
    /\ UNCHANGED <<runner_vars, net_vars, unstake, payout, output, retry>>

\* The 5 s timeout fires: SIGKILL to every process, cleanup, exit with 1.
shutdown_timeout ==
    /\ ParentAlive
    /\ children.timeout = "armed"
    /\ children' =
          [children EXCEPT !.timeout = "fired",
                           !.sigkill = {c \in Spawned : children.status[c] = "running"},
                           !.cleanups = @ + 1, !.exit = "1"]
    /\ UNCHANGED <<runner_vars, net_vars, unstake, payout, output, retry>>

ShutdownNext ==
    \/ startClient
    \/ setup_again
    \/ \E sig \in {"SIGINT", "SIGTERM"} : signal(sig)
    \/ \E c \in Children, how \in {"code_0", "code_1", "signalled"} : child_exit(c, how)
    \/ shutdown_timeout

ShutdownSpec == Init /\ [][ShutdownNext]_vars

\* ------------------------------------------------ output of a child
\* A line is a sequence of pieces: the texts the patterns look for, other
\* text, a blank, and an ANSI colour code.
Blank == " "
Ansi == "ESC[31m"

Pieces ==
    {"TonLib is synced", "initialization completed", "OK, connecting to [p]",
     "handshake completed successfully", "outbound connection ready",
     "TcpListener[port:1]] 0.0 2", "fatal", "Aborted", "[ 0]", "Error",
     "text", Blank, Ansi}

Lines == UNION {[1..n -> Pieces] : n \in 0..MaxLineLen}

RECURSIVE trim(_)
\* String.prototype.trim
trim(line) ==
    IF line = <<>> THEN line
    ELSE IF line[1] = Blank THEN trim(Tail(line))
    ELSE IF line[Len(line)] = Blank THEN trim(SubSeq(line, 1, Len(line) - 1))
    ELSE line

RECURSIVE StripAnsi(_)
\* line.replace(/\x1b\[[0-9;]*m/g, '')
StripAnsi(line) ==
    IF line = <<>> THEN line
    ELSE IF line[1] = Ansi THEN StripAnsi(Tail(line))
    ELSE <<line[1]>> \o StripAnsi(Tail(line))

Contains(clean, piece) == \E i \in 1..Len(clean) : clean[i] = piece

\* The events of LIFECYCLE_PATTERNS, in the order of the array.
LIFECYCLE_PATTERNS ==
    <<"ton_synced", "initialized", "proxy_connecting", "proxy_ready",
      "connection_ready", "listening", "fatal", "error">>

\* clean.match(lp.pattern) for the pattern of each event.
Matches(event, clean) ==
    IF event = "ton_synced" THEN Contains(clean, "TonLib is synced")
    ELSE IF event = "initialized" THEN Contains(clean, "initialization completed")
    ELSE IF event = "proxy_connecting" THEN Contains(clean, "OK, connecting to [p]")
    ELSE IF event = "proxy_ready" THEN Contains(clean, "handshake completed successfully")
    ELSE IF event = "connection_ready" THEN Contains(clean, "outbound connection ready")
    ELSE IF event = "listening" THEN Contains(clean, "TcpListener[port:1]] 0.0 2")
    ELSE IF event = "fatal" THEN Contains(clean, "fatal") \/ Contains(clean, "Aborted")
    ELSE \E i \in 1..Len(clean), j \in 1..Len(clean) :
            i < j /\ clean[i] = "[ 0]" /\ clean[j] = "Error"

Printed(events, stderr, stdout) ==
    [events |-> events, stderr |-> stderr, stdout |-> stdout]

RECURSIVE CheckPatterns(_, _, _, _, _)
\* The loop over LIFECYCLE_PATTERNS from the i-th on, and what follows it:
\* a match is reported; a fatal or error match is written to stderr and
\* ends processLine; in quiet mode any other match ends it as well; after
\* the loop quiet mode prints nothing and verbose mode prints the line to
\* the stream it came from.
CheckPatterns(i, line, stream, quiet, events) ==
    IF i > Len(LIFECYCLE_PATTERNS)
    THEN IF quiet THEN Printed(events, <<>>, <<>>)
         ELSE IF stream = "stderr" THEN Printed(events, <<line>>, <<>>)
         ELSE Printed(events, <<>>, <<line>>)
    ELSE LET event == LIFECYCLE_PATTERNS[i]
             clean == StripAnsi(line)
         IN  IF Matches(event, clean)
             THEN IF event \in {"fatal", "error"}
                  THEN Printed(Append(events, event), <<trim(clean)>>, <<>>)
                  ELSE IF quiet THEN Printed(Append(events, event), <<>>, <<>>)
                  ELSE CheckPatterns(i + 1, line, stream, quiet, Append(events, event))
             ELSE CheckPatterns(i + 1, line, stream, quiet, events)

\* processLine: nothing for a line of blanks, else the patterns.
processLine(line, stream, quiet) ==
    IF trim(line) = <<>> THEN Printed(<<>>, <<>>, <<>>)
    ELSE CheckPatterns(1, line, stream, quiet, <<>>)

\* spawnWithPrefix: the child is spawned, in quiet or in verbose mode.
spawnWithPrefix(quiet) ==
    /\ output.pos = "start"
    /\ output' = [NoOutput EXCEPT !.pos = "spawned", !.quiet = quiet]
    /\ UNCHANGED <<runner_vars, net_vars, unstake, payout, children, retry>>

\* The 'data' handler with one complete line split off the buffer (or the
\* 'end' handler with the rest of the buffer): processLine on it.  The
\* record shows what this line made the parent report and print.
on_data(line, stream) ==
    /\ output.pos = "spawned"
    /\ LET p == processLine(line, stream, output.quiet)
       IN  output' = [pos |-> "line", quiet |-> output.quiet, line |-> line,
                      stream |-> stream, events |-> p.events,
                      stderr |-> p.stderr, stdout |-> p.stdout]
    /\ UNCHANGED <<runner_vars, net_vars, unstake, payout, children, retry>>

\* The handler is ready for the next line.
next_line ==
    /\ output.pos = "line"
    /\ output' = [NoOutput EXCEPT !.pos = "spawned", !.quiet = output.quiet]
    /\ UNCHANGED <<runner_vars, net_vars, unstake, payout, children, retry>>

OutputNext ==
    \/ \E quiet \in BOOLEAN : spawnWithPrefix(quiet)
    \/ next_line
    \/ \E line \in Lines, stream \in {"stdout", "stderr"} : on_data(line, stream)

OutputSpec == Init /\ [][OutputNext]_vars

\* ------------------------------------------------------------ withRetry
\* What fn can throw: an HTTP error with a status, or an error without a
\* response (status 0), whose message may or may not contain "429".
Errors == [status : {0, 429, 500}, message_429 : BOOLEAN]

\* Every error counts as a 429.
is429_always(err) == TRUE

\* err?.response?.status === 429 || err?.message?.includes('429')
is429(err) == err.status = 429 \/ err.message_429

\* withRetry(fn, maxRetries) is called.
withRetry(maxRetries) ==
    /\ retry.pos = "start"
    /\ retry' = [NoRetry EXCEPT !.pos = "loop", !.maxRetries = maxRetries]
    /\ UNCHANGED <<runner_vars, net_vars, unstake, payout, children, output>>

\* One turn of the loop where fn returns: its result is returned.  The
\* result is told apart by the number of the call that gave it.
fn_returns ==
    /\ retry.pos = "loop"
    /\ retry.i < retry.maxRetries
    /\ retry' = [retry EXCEPT !.pos = "ended", !.calls = @ + 1,
                              !.outcome = "returned", !.result = retry.calls + 1]
    /\ UNCHANGED <<runner_vars, net_vars, unstake, payout, children, output>>

\* One turn of the loop where fn throws: the error is thrown on unless it is
\* a 429 and a turn is left; else the delay of (i + 1) * 2000 ms is waited.
fn_throws(err) ==
    /\ retry.pos = "loop"
    /\ retry.i < retry.maxRetries
    /\ retry' =
          IF ~is429(err) \/ retry.i = retry.maxRetries - 1
          THEN [retry EXCEPT !.pos = "ended", !.calls = @ + 1,
                             !.errors = Append(@, err), !.outcome = "threw"]
          ELSE [retry EXCEPT !.calls = @ + 1, !.errors = Append(@, err),
                             !.delays = Append(@, (retry.i + 1) * RetryDelayMs),
                             !.i = @ + 1]
    /\ UNCHANGED <<runner_vars, net_vars, unstake, payout, children, output>>

\* withRetry is over; it can be called again.
retry_again ==
    /\ retry.pos = "ended"
    /\ retry' = NoRetry
    /\ UNCHANGED <<runner_vars, net_vars, unstake, payout, children, output>>

RetryNext ==
    \/ \E maxRetries \in 1..DefaultMaxRetries : withRetry(maxRetries)
    \/ fn_returns
    \/ \E err \in Errors : fn_throws(err)
    \/ retry_again

RetrySpec == Init /\ [][RetryNext]_vars

\* ================================================================ claims
QueryMagics == {"getProxyPrivateKeys", "getWorkerPrivateKeys"}

Ledger == {private_keys_[i] : i \in DOMAIN private_keys_}

\* The alarm has just returned and the process lives.
AfterAlarm == response.to = "alarm" /\ pc # "dead"

\* C1: after any maintenance cycle (an alarm that has returned) the ledger
\* holds a key with for_workers that has not expired (now < valid_until) and
\* a key with for_proxies that has not expired.
C1_RolesCoveredAfterAlarm ==
    AfterAlarm =>
        /\ \E k \in Ledger : k.for_workers /\ now < k.valid_until_
        /\ \E k \in Ledger : k.for_proxies /\ now < k.valid_until_

\* C2: with hash checking enabled, a getProxyPrivateKeys query from a hash
\* outside the proxy allow-list, and a getWorkerPrivateKeys query from a hash
\* outside the worker allow-list, is answered with an error that carries no
\* key, and the ledger and the store stay as they are.
C2_RefusedHashLeaksNothing ==
    [][\A conn \in Hashes :
          /\ (/\ is_initialized /\ check_hashes_
              /\ conn \notin ProxyHashes(root_version)
              /\ receive_query("getProxyPrivateKeys", conn))
              => /\ response'.status = "error"
                 /\ response'.text = "unknown proxy hash"
                 /\ response'.keys = <<>>
                 /\ UNCHANGED <<private_keys_, kv, durable>>
          /\ (/\ is_initialized /\ check_hashes_
              /\ conn \notin WorkerHashes(root_version)
              /\ receive_query("getWorkerPrivateKeys", conn))
              => /\ response'.status = "error"
                 /\ response'.text = "unknown worker hash"
                 /\ response'.keys = <<>>
                 /\ UNCHANGED <<private_keys_, kv, durable>>]_vars

\* A worker query from a hash that is no worker hash was refused while the
\* ledger held a worker key.
C2_Witness ==
    /\ response.to = "getWorkerPrivateKeys"
    /\ check_hashes_
    /\ response.from \notin WorkerHashes(root_version)
    /\ response.status = "error"
    /\ \E k \in Ledger : k.for_workers

\* The list holds one (valid_until, private_key) pair for each of the
\* records and nothing else.
PairsOf(list, records) ==
    /\ Len(list) = Cardinality(records)
    /\ \A k \in records : \E j \in DOMAIN list : list[j] = <<k.valid_until_, k.private_key>>
    /\ \A j \in DOMAIN list :
          \E k \in records : list[j] = <<k.valid_until_, k.private_key>>

\* C3: an authorized getProxyPrivateKeys query is answered with exactly one
\* (valid_until, private_key) pair for every ledger key with for_proxies and
\* nothing else, and getWorkerPrivateKeys likewise for for_workers: a key
\* without the role flag is not in the answer, a key with both flags is in
\* both answers.
C3_RoleListsExact ==
    /\ (/\ response.to = "getProxyPrivateKeys"
        /\ (~check_hashes_ \/ response.from \in ProxyHashes(root_version)))
        => /\ response.status = "ok"
           /\ PairsOf(response.keys, {k \in Ledger : k.for_proxies})
    /\ (/\ response.to = "getWorkerPrivateKeys"
        /\ (~check_hashes_ \/ response.from \in WorkerHashes(root_version)))
        => /\ response.status = "ok"
           /\ PairsOf(response.keys, {k \in Ledger : k.for_workers})

\* A worker query was answered from a ledger with a key of both roles and a
\* key of the proxy role only.
C3_Witness ==
    /\ response.to = "getWorkerPrivateKeys"
    /\ response.status = "ok"
    /\ \E k \in Ledger : k.for_workers /\ k.for_proxies
    /\ \E k \in Ledger : ~k.for_workers /\ k.for_proxies
    /\ Len(response.keys) = 1

\* C4: an alarm that fires before the runner is initialized is a no-op: it
\* changes neither the ledger nor the store nor the active version.
C4_AlarmWaitsForInitialization ==
    [][(~is_initialized /\ alarm)
          => UNCHANGED <<private_keys_, active_config_version_, kv, durable>>]_vars

\* C5: after a maintenance cycle no key with valid_until <= now is left in
\* the ledger or in the lists the two queries are answered with.
C5_ExpiredGoneAfterAlarm ==
    AfterAlarm =>
        /\ \A k \in Ledger : ~(k.valid_until_ <= now)
        /\ \A j \in DOMAIN proxy_private_keys(private_keys_) :
              ~(proxy_private_keys(private_keys_)[j][1] <= now)
        /\ \A j \in DOMAIN worker_private_keys(private_keys_) :
              ~(worker_private_keys(private_keys_)[j][1] <= now)

\* C6: every key in the answer to getProxyPrivateKeys or getWorkerPrivateKeys
\* has now < valid_until when the answer is built.
C6_ServedKeysUnexpired ==
    (response.to \in QueryMagics /\ response.status = "ok")
        => \A j \in DOMAIN response.keys : now < response.keys[j][1]

\* C7: when every key of a role has expired (valid_until < now), the next
\* maintenance cycle leaves none of them in the ledger and puts a new,
\* unexpired key of that role there.
C7_ExpiredRoleRenewed ==
    [][(alarm /\ pc' # "dead")
          => /\ (/\ \E k \in Ledger : k.for_workers
                 /\ \A k \in Ledger : k.for_workers => k.valid_until_ < now)
                 => /\ \A k \in Ledger : k.for_workers => k \notin Range(private_keys_')
                    /\ \E n \in Range(private_keys_') \ Ledger :
                          n.for_workers /\ now < n.valid_until_
             /\ (/\ \E k \in Ledger : k.for_proxies
                 /\ \A k \in Ledger : k.for_proxies => k.valid_until_ < now)
                 => /\ \A k \in Ledger : k.for_proxies => k \notin Range(private_keys_')
                    /\ \E n \in Range(private_keys_') \ Ledger :
                          n.for_proxies /\ now < n.valid_until_]_vars

Absent == [fatal |-> FALSE, value |-> <<>>]

\* C8: get(K) after set(K, P) is P, whatever was under K before and without
\* a byte of the signature; the other keys read as they did; get of a key
\* that was never set or was erased is absent.
C8_GetAfterSet ==
    /\ \A K \in StoreKeys : get_from_db(kv, K) = Absent
    /\ [][\A K \in StoreKeys :
             /\ \A P \in StorePayloads :
                   store_set(K, P)
                       => /\ get_from_db(kv', K) = [fatal |-> FALSE, value |-> P]
                          /\ \A K2 \in StoreKeys \ {K} :
                                get_from_db(kv', K2) = get_from_db(kv, K2)
             /\ store_erase(K)
                   => /\ get_from_db(kv', K) = Absent
                      /\ \A K2 \in StoreKeys \ {K} :
                            get_from_db(kv', K2) = get_from_db(kv, K2)]_vars

\* A payload written over another one under the same key was read back.
C8_Witness ==
    /\ response.to = "get_from_db"
    /\ response.keys = serialize_keyManagerDb_configV1(0)
    /\ KeyDbKey(DerivePublic(secure_bytes(0))) \in DOMAIN kv
    /\ kv[KeyDbKey(DerivePublic(secure_bytes(0)))].payload = response.keys

\* The bytes of a stored value differ from what was written in some byte,
\* or there are fewer than 64 of them.
Damaged(v) ==
    LET read == Bytes(v)
        written == Bytes(Signed(v.payload, v.signer))
    IN  \/ Len(read) < SignatureSize
        \/ Len(read) = Len(written) /\ \E i \in DOMAIN read : read[i] # written[i]

\* C9: a stored value with a byte altered, in the payload or in the
\* signature, or with fewer than 64 bytes, is fatal to get_from_db and to
\* process_db_key: the process that reads it, by get or at bootstrap, ends,
\* and nothing of the entry is returned or loaded.
C9_DamageIsFatal ==
    /\ [](\A K \in DOMAIN kv :
              Damaged(kv[K])
                  => /\ get_from_db(kv, K).fatal
                     /\ process_db_key(K, Bytes(kv[K]), active_config_version_, now).fatal)
    /\ [][/\ (custom_initialize /\ \E K \in DOMAIN kv : Damaged(kv[K]))
                => pc' = "dead" /\ private_keys_' = <<>>
            /\ \A K \in DOMAIN kv :
                  (Damaged(kv[K]) /\ store_get(K))
                      => pc' = "dead" /\ response' = response]_vars

\* A process ended on an entry with an altered byte in its signature.
C9_Witness ==
    /\ pc = "dead"
    /\ \E K \in DOMAIN kv : kv[K].flipped > Len(kv[K].payload)

\* C10: every record of the ledger has the public key derived from its
\* private key, and a bootstrap that goes through has loaded no entry
\* key_<hex> whose <hex> is not the public key derived from the private key
\* stored in it.
C10_PublicKeyDerived ==
    /\ [](\A k \in Ledger : k.public_key = DerivePublic(k.private_key))
    /\ [][(custom_initialize /\ pc' = "custom_initialized")
              => \A K \in DOMAIN kv :
                    split(K).first = <<"key">>
                        => split(K).second
                               = to_hex(DerivePublic(CellValue(kv[K].payload[2])))]_vars

\* A bootstrap has loaded a record from an entry no generate_key wrote.
C10_Witness ==
    /\ pc = "custom_initialized"
    /\ entropy = 0
    /\ private_keys_ # <<>>

\* The version the "config" entry of a store holds (0 without one).
StoredVersion(store) ==
    IF ConfigDbKey \in DOMAIN store /\ Len(store[ConfigDbKey].payload) >= 2
    THEN CellValue(store[ConfigDbKey].payload[2])
    ELSE 0

\* The node's active version: the member of the running process, and what
\* the store holds for the next process while none has opened it.
LocalVersion == IF kv_opened THEN active_config_version_ ELSE StoredVersion(kv)

\* C11: the active config version never exceeds the version of the network
\* configuration and never decreases; it changes only in an alarm cycle that
\* sees a higher network version, and that cycle leaves the new value in the
\* store, flushed.
C11_ActiveVersionForwardOnly ==
    /\ [](active_config_version_ <= root_version)
    /\ [][LocalVersion' >= LocalVersion]_vars
    /\ [][LocalVersion' # LocalVersion
             => /\ alarm
                /\ root_version > LocalVersion
                /\ LocalVersion' = root_version
                /\ StoredVersion(kv') = root_version
                /\ StoredVersion(durable') = root_version]_vars

\* The version has advanced, the store holds it and the runner serves.
C11_Witness ==
    /\ is_initialized
    /\ active_config_version_ > 0
    /\ StoredVersion(durable) = active_config_version_

\* What the claim calls a violation in an entry of the store: a signature
\* that is not the node's over the payload, a name with a prefix other than
\* key and config, a key record valid since a later config version than the
\* one the store holds.
ForeignOrAltered(v) == v.signer # NodeSeed \/ ~Intact(v)

UnknownPrefix(K) == K[1] \notin {"key", "config"}

AheadOfConfig(store, K) ==
    /\ K[1] = "key"
    /\ Len(store[K].payload) = 7
    /\ CellValue(store[K].payload[5]) > StoredVersion(store)

BootViolation(store) ==
    \E K \in DOMAIN store :
        ForeignOrAltered(store[K]) \/ UnknownPrefix(K) \/ AheadOfConfig(store, K)

\* C12: a bootstrap over a store with a value whose signature does not
\* verify, an entry with an unknown prefix or a key record ahead of the config
\* version ends the process with nothing loaded; the runner becomes
\* initialized only out of a bootstrap that went through, a query is answered
\* only by an initialized runner, and a process that ended does nothing more.
C12_BootstrapViolationIsFatal ==
    /\ [][(custom_initialize /\ BootViolation(kv))
             => pc' = "dead" /\ private_keys_' = <<>> /\ response' = response]_vars
    /\ [][(is_initialized' /\ ~is_initialized) => pc = "custom_initialized"]_vars
    /\ [][pc = "dead"
             => pc' = "created" /\ UNCHANGED <<private_keys_, kv, durable, response>>]_vars
    /\ [](response.to \in QueryMagics => is_initialized)

\* A process ended on a key record ahead of the config version, in a store
\* with nothing else wrong.
C12_Witness ==
    /\ pc = "dead"
    /\ \E K \in DOMAIN kv : AheadOfConfig(kv, K)
    /\ \A K \in DOMAIN kv : ~ForeignOrAltered(kv[K]) /\ ~UnknownPrefix(K)

\* C13: a query with an opcode other than getProxyPrivateKeys and
\* getWorkerPrivateKeys is answered with the error "unknown query magic" and
\* no key, and the ledger, the store and the active config version stay as
\* they are.
C13_UnknownMagicRefused ==
    [][\A magic \in Magics \ QueryMagics, conn \in Hashes :
          (is_initialized /\ response'.to = magic /\ receive_query(magic, conn))
              => /\ response'.status = "error"
                 /\ response'.text = "unknown query magic"
                 /\ response'.keys = <<>>
                 /\ UNCHANGED <<private_keys_, kv, durable, active_config_version_>>]_vars

\* A query with an unknown opcode was refused by a runner that holds keys.
C13_Witness ==
    /\ response.to \in Magics \ QueryMagics
    /\ response.status = "error"
    /\ \E k \in Ledger : k.for_workers

\* A string of hex digits, two for each byte.
WellFormedHex(arg) ==
    /\ Len(arg) % 2 = 0
    /\ \A i \in DOMAIN arg : arg[i] \in Range(HexDigits)

\* C14: /request/removekey with a method other than POST, with a key that
\* is no hex string or with one that is not a whole public key long is
\* answered with an error body that says so and removes nothing; a POST
\* that names a key the ledger does not hold is answered with success and
\* changes nothing either.
C14_RemoveKeyRejectsAndIsIdempotent ==
    [][\A method \in Methods, arg \in RemoveArgs :
          (response'.to = "/request/removekey" /\ request_removekey(method, arg))
              => /\ method # "POST"
                      => /\ response'.text = "removekey must be a post request"
                         /\ UNCHANGED <<private_keys_, kv, durable>>
                 /\ (method = "POST" /\ ~WellFormedHex(arg))
                      => /\ response'.text = "cannot decode hex"
                         /\ UNCHANGED <<private_keys_, kv, durable>>
                 /\ (method = "POST" /\ WellFormedHex(arg) /\ Len(arg) # Len(to_hex(0)))
                      => /\ response'.text
                               = "cannot decode hex: public key must be 32 bytes long"
                         /\ UNCHANGED <<private_keys_, kv, durable>>
                 /\ (/\ method = "POST" /\ WellFormedHex(arg) /\ Len(arg) = Len(to_hex(0))
                     /\ \A k \in Ledger : to_hex(k.public_key) # arg)
                      => /\ response'.text = "key removed"
                         /\ UNCHANGED <<private_keys_, kv, durable>>]_vars

\* A key of the wrong length was refused by a runner that holds keys.
C14_Witness ==
    /\ response.to = "/request/removekey"
    /\ response.text = "cannot decode hex: public key must be 32 bytes long"
    /\ private_keys_ # <<>>

\* C15: POST /request/generatekey with type worker, proxy or proxyworker
\* appends exactly one key to the ledger, with (for_proxies, for_workers)
\* (FALSE, TRUE), (TRUE, FALSE) or (TRUE, TRUE), and when the success answer
\* is built the flushed store holds the key's entry; another type is answered
\* with an error body and a method other than POST is refused, and neither
\* generates anything.
C15_GenerateKeyByType ==
    [][\A method \in Methods, key_type \in KeyTypes :
          (response'.to = "/request/generatekey" /\ request_generatekey(method, key_type))
              => /\ (method = "POST" /\ key_type \in {"worker", "proxy", "proxyworker"})
                      => /\ Len(private_keys_') = Len(private_keys_) + 1
                         /\ SubSeq(private_keys_', 1, Len(private_keys_)) = private_keys_
                         /\ private_keys_'[Len(private_keys_')].for_proxies
                               = (key_type \in {"proxy", "proxyworker"})
                         /\ private_keys_'[Len(private_keys_')].for_workers
                               = (key_type \in {"worker", "proxyworker"})
                         /\ response'.text = "key generated"
                         /\ durable' = kv'
                         /\ KeyDbKey(private_keys_'[Len(private_keys_')].public_key)
                               \in DOMAIN durable' \ DOMAIN kv
                 /\ (method = "POST" /\ key_type \notin {"worker", "proxy", "proxyworker"})
                      => /\ response'.text = "unknown key type"
                         /\ UNCHANGED <<private_keys_, kv, durable, entropy>>
                 /\ method # "POST"
                      => /\ response'.text = "generatekey must be a post request"
                         /\ UNCHANGED <<private_keys_, kv, durable, entropy>>]_vars

\* A key of both roles was generated on request, after another key.
C15_Witness ==
    /\ response.to = "/request/generatekey"
    /\ response.text = "key generated"
    /\ Len(private_keys_) >= 2
    /\ private_keys_[Len(private_keys_)].for_proxies
    /\ private_keys_[Len(private_keys_)].for_workers

\* Both ends have made their wrap call, both SSL streams were created, and
\* the policy of each accepts the key the other claims.
BothAccepting ==
    \A s \in Sides :
        /\ tunnel[s].worker # "none"
        /\ tunnel[Peer(s)].cert_and_key \in tunnel[s].policy.accepts

\* C16: when the policy of each end accepts the other's quote and claims,
\* wrap_tls_client and wrap_tls_server both complete and neither fails; the
\* AttestedPeerInfo a call returns carries the public key claimed by the
\* counterpart and the source and destination addresses passed to that call,
\* together with the pipe.
C16_AcceptedPeersAreWrapped ==
    /\ [](\A s \in Sides :
            tunnel[s].pos = "returned"
                => /\ tunnel[s].result.status = "ok"
                   /\ tunnel[s].result.tls_pipe
                   /\ tunnel[s].result.peer_info.user_claims.public_key
                         = tunnel[Peer(s)].cert_and_key
                   /\ tunnel[s].result.peer_info.source_ip = tunnel[s].source.ip
                   /\ tunnel[s].result.peer_info.source_port = tunnel[s].source.port
                   /\ tunnel[s].result.peer_info.destination_ip = tunnel[s].destination.ip
                   /\ tunnel[s].result.peer_info.destination_port
                         = tunnel[s].destination.port)
    /\ [](BothAccepting => \A s \in Sides : tunnel[s].pos # "failed")
    /\ (BothAccepting ~> (\A s \in Sides : tunnel[s].pos = "returned"))

\* Both calls have returned, the two ends claiming different keys.
C16_Witness ==
    /\ \A s \in Sides : tunnel[s].pos = "returned"
    /\ tunnel["client"].cert_and_key # tunnel["server"].cert_and_key
    /\ tunnel["client"].policy # tunnel["server"].policy

\* The policy of end s does not accept the key the other end claims.
Rejects(s) ==
    /\ tunnel[s].pos # "not_called"
    /\ tunnel[Peer(s)].pos # "not_called"
    /\ tunnel[Peer(s)].cert_and_key \notin tunnel[s].policy.accepts

\* The TLS engine of end s has put the peer's certificate to the policy.
Verified(s) == tunnel[s].left_ssl_ \in {"done", "failed"}

IsPrefix(a, b) == Len(a) <= Len(b) /\ a = SubSeq(b, 1, Len(a))

\* The bytes on their way from the remote end of `from` to the remote end
\* of `to`, the oldest first, after those that have arrived.
Flow(from, to) == to.received \o to.output_buffer \o from.input_buffer \o from.readable

\* C18: what the remote end of one pipe has received is always the
\* beginning of what the remote end of the other pipe has written, byte for
\* byte and in order; and as long as the relay has not finished, the bytes
\* received, those in the two buffers and those not read yet are together
\* exactly the bytes written: none dropped, duplicated, reordered or altered.
C18_RelayFidelity ==
    /\ IsPrefix(relay.right_.received, relay.left_.written)
    /\ IsPrefix(relay.left_.received, relay.right_.written)
    /\ relay.status # "finished"
          => /\ Flow(relay.left_, relay.right_) = relay.left_.written
             /\ Flow(relay.right_, relay.left_) = relay.right_.written

\* Both streams have arrived in full at the other side.
C18_Witness ==
    /\ relay.status = "running"
    /\ relay.right_.received = LeftStream
    /\ relay.left_.received = RightStream

\* C19: in every reachable state neither buffer of either pipe of the relay
\* holds more bytes than the bound: the relay reads from a side no more than
\* the other side's output buffer can absorb.
C19_RelayBackpressure ==
    /\ Len(relay.left_.input_buffer) <= BufferBound
    /\ Len(relay.left_.output_buffer) <= BufferBound
    /\ Len(relay.right_.input_buffer) <= BufferBound
    /\ Len(relay.right_.output_buffer) <= BufferBound

\* C20: a key of the ledger whose entry is in the store is read back from
\* that entry, by the bootstrap's process_db_key, as the same record: the
\* same private key, the same for_proxies and for_workers flags, the same
\* valid_since, valid_until and valid_since_config_version.
C20_StoredKeyReadsBackTheSame ==
    \A i \in DOMAIN private_keys_ :
        LET P == private_keys_[i]
            key == KeyDbKey(P.public_key)
        IN  (kv_opened /\ key \in DOMAIN kv /\ P.valid_until_ > now)
                => process_db_key(key, Bytes(kv[key]), active_config_version_, now)
                     = [fatal |-> FALSE, keys |-> <<P>>]

\* The key_* entries of a store.
KeyEntries(store) == {k \in DOMAIN store : split(k).first = <<"key">>}

\* The valid_until of the record a key_* entry holds.
StoredValidUntil(store, k) == fetch_keyManagerDb_key(store[k].payload).valid_until_utime_

\* The ledger has a record for the entry.
InLedger(keys, k) == \E i \in DOMAIN keys : KeyDbKey(keys[i].public_key) = k

\* The entries of records that have expired and are in no ledger: what a
\* bootstrap has discarded from memory.
Stale(store, keys, clock) ==
    {k \in KeyEntries(store) : StoredValidUntil(store, k) <= clock /\ ~InLedger(keys, k)}

\* C21: a bootstrap loads the stored key records with valid_until > now and
\* no record with valid_until <= now; and a maintenance pass that has run its
\* cycle leaves no store entry of a record discarded that way.
C21_DiscardedAtBootstrapErasedByAlarm ==
    /\ [][(custom_initialize /\ pc' = "custom_initialized")
             => \A k \in KeyEntries(kv) :
                    InLedger(private_keys_', k) <=> StoredValidUntil(kv, k) > now]_vars
    /\ [][(response'.to = "alarm" /\ ~alarm_returns_early /\ alarm)
             => Stale(kv', private_keys_', now) = {}]_vars

\* The part of C21 that the bootstrap alone decides.
C21_BootstrapLoadsUnexpiredOnly ==
    [][(custom_initialize /\ pc' = "custom_initialized")
          => \A k \in KeyEntries(kv) :
                 InLedger(private_keys_', k) <=> StoredValidUntil(kv, k) > now]_vars

\* The serialization of a ledger record: its fields in the order of the
\* constructor keyManagerDb_key.
RecordPayload(P) ==
    serialize_keyManagerDb_key(P.private_key, P.for_proxies, P.for_workers,
                               P.valid_since_config_version_, P.valid_since_, P.valid_until_)

\* C22: while the store is open, every ledger record has its store entry
\* key_<hex public key>, whose value is the record's serialization signed by
\* the node key; no two records share a public key; and no key_* entry of
\* the store is without its ledger record.
C22_LedgerAndStoreAgree ==
    kv_opened
        => /\ \A i \in DOMAIN private_keys_ :
                 LET P == private_keys_[i]
                 IN  /\ KeyDbKey(P.public_key) \in DOMAIN kv
                     /\ kv[KeyDbKey(P.public_key)] = Signed(RecordPayload(P), NodeSeed)
           /\ \A i, j \in DOMAIN private_keys_ :
                 private_keys_[i].public_key = private_keys_[j].public_key => i = j
           /\ \A k \in KeyEntries(kv) : InLedger(private_keys_, k)

\* What does hold between ledger and store: every record has one entry,
\* signed by the node key, that holds its private key, validity window and
\* version; and an entry without a record is one of an expired record.
C22_LedgerWithinStore ==
    kv_opened
        => /\ \A i \in DOMAIN private_keys_ :
                 LET P == private_keys_[i]
                     k == KeyDbKey(P.public_key)
                 IN  /\ k \in DOMAIN kv
                     /\ kv[k].signer = NodeSeed
                     /\ fetch_keyManagerDb_key(kv[k].payload).private_key_ = P.private_key
                     /\ fetch_keyManagerDb_key(kv[k].payload).valid_since_config_version_
                          = P.valid_since_config_version_
                     /\ fetch_keyManagerDb_key(kv[k].payload).valid_since_utime_ = P.valid_since_
                     /\ fetch_keyManagerDb_key(kv[k].payload).valid_until_utime_ = P.valid_until_
           /\ \A i, j \in DOMAIN private_keys_ :
                 private_keys_[i].public_key = private_keys_[j].public_key => i = j
           /\ \A k \in KeyEntries(kv) :
                 InLedger(private_keys_, k) \/ StoredValidUntil(kv, k) <= now

\* The flags generate_key is called with for a key type of the HTTP request.
RequestedForProxies(key_type) == key_type \in {"proxy", "proxyworker"}

RequestedForWorkers(key_type) == key_type \in {"worker", "proxyworker"}

\* A step in which http_generate_key has called generate_key.
Generates(method, key_type) ==
    /\ response'.to = "/request/generatekey"
    /\ request_generatekey(method, key_type)
    /\ response'.text = "key generated"

\* What generate_key does to the ledger and to the keys of the store: one
\* record more, with the requested flags, valid from now for key_ttl seconds
\* and from the active config version; one entry more, under the record's
\* key and signed by the node key; every other record and entry as before.
GeneratedInMemory(key_type) ==
    LET P == private_keys_'[Len(private_keys_')]
    IN  /\ Len(private_keys_') = Len(private_keys_) + 1
        /\ SubSeq(private_keys_', 1, Len(private_keys_)) = private_keys_
        /\ P.for_proxies = RequestedForProxies(key_type)
        /\ P.for_workers = RequestedForWorkers(key_type)
        /\ P.valid_since_ = now
        /\ P.valid_until_ = P.valid_since_ + 86400
        /\ P.valid_since_config_version_ = active_config_version_
        /\ P.public_key = DerivePublic(P.private_key)
        /\ DOMAIN kv' = DOMAIN kv \cup {KeyDbKey(P.public_key)}
        /\ KeyDbKey(P.public_key) \notin DOMAIN kv
        /\ \A k \in DOMAIN kv : kv'[k] = kv[k]
        /\ kv'[KeyDbKey(P.public_key)].signer = NodeSeed
        /\ active_config_version_' = active_config_version_

\* The records an alarm cycle has added to the ledger.
NewRecords == {i \in DOMAIN private_keys_' :
                  \A j \in DOMAIN private_keys_ :
                      private_keys_[j].public_key # private_keys_'[i].public_key}

\* C23: generate_key appends exactly one record with the requested role
\* flags, valid_since = now, valid_until = valid_since + 86400 and the active
\* config version of that moment; it writes an entry signed by the node key
\* under key_<hex public key>; every existing record and entry stays. So for
\* the call of an HTTP request, and so for the calls of an alarm cycle, whose
\* records carry the version the cycle has advanced to.
C23_GenerateKeyAppends ==
    /\ [][\A method \in Methods, key_type \in KeyTypes :
             Generates(method, key_type) => GeneratedInMemory(key_type)]_vars
    /\ [][(response'.to = "alarm" /\ ~alarm_returns_early /\ alarm)
             => \A i \in NewRecords :
                    LET P == private_keys_'[i]
                    IN  /\ P.valid_since_ = now
                        /\ P.valid_until_ = P.valid_since_ + 86400
                        /\ P.valid_since_config_version_ = active_config_version_'
                        /\ P.for_proxies # P.for_workers
                        /\ KeyDbKey(P.public_key) \in DOMAIN kv' \ DOMAIN kv
                        /\ kv'[KeyDbKey(P.public_key)].signer = NodeSeed]_vars

\* A key was generated on request, after other keys, later than the start
\* and under a config version that had advanced.
C23_Witness ==
    /\ response.to = "/request/generatekey"
    /\ response.text = "key generated"
    /\ Len(private_keys_) >= 2
    /\ private_keys_[Len(private_keys_)].valid_since_ > 0
    /\ private_keys_[Len(private_keys_)].valid_since_config_version_ > 0

\* C24: remove_key(public_key) takes out of the ledger the record with that
\* public key and out of the store the entry of that record, and nothing
\* else: the other records keep their order, the other entries their
\* values, the active config version its value; when no record has the
\* public key, ledger and store stay as they are.
C24_RemoveKeyRemovesExactlyOne ==
    [][\A arg \in RemoveArgs :
          (/\ response'.to = "/request/removekey"
           /\ request_removekey("POST", arg)
           /\ response'.text = "key removed")
              => /\ private_keys_'
                       = SelectSeq(private_keys_, LAMBDA k : to_hex(k.public_key) # arg)
                 /\ Len(private_keys_') >= Len(private_keys_) - 1
                 /\ DOMAIN kv' = DOMAIN kv \ {KeyDbKey(k.public_key) :
                                                 k \in {r \in Ledger : to_hex(r.public_key) = arg}}
                 /\ \A k \in DOMAIN kv' : kv'[k] = kv[k]
                 /\ active_config_version_' = active_config_version_
                 /\ (\A r \in Ledger : to_hex(r.public_key) # arg)
                       => UNCHANGED <<private_keys_, kv>>]_vars

\* One of two keys generated at the start has been removed on request.
C24_Witness ==
    /\ response.to = "/request/removekey"
    /\ response.text = "key removed"
    /\ now = 0
    /\ entropy = 2
    /\ Len(private_keys_) = 1
    /\ Cardinality(KeyEntries(kv)) = 1

\* An alarm that runs its cycle.
AlarmCycle == response'.to = "alarm" /\ ~alarm_returns_early /\ alarm

\* The records the cycle has added, by role.
NewWorkerOnly == {i \in NewRecords : private_keys_'[i].for_workers /\ ~private_keys_'[i].for_proxies}

NewProxyOnly == {i \in NewRecords : private_keys_'[i].for_proxies /\ ~private_keys_'[i].for_workers}

\* C25: a maintenance cycle generates one worker-only key if and only if no
\* key with for_workers that has not expired (valid_until > now) is left by
\* the sweep, and one proxy-only key if and only if no such key with
\* for_proxies is left; it generates nothing else, so zero, one or two keys,
\* and none when one unexpired key has both roles.
C25_OneKeyPerUncoveredRole ==
    [][AlarmCycle
          => /\ NewRecords = NewWorkerOnly \cup NewProxyOnly
             /\ Cardinality(NewWorkerOnly) =
                   IF \E k \in Ledger : k.for_workers /\ k.valid_until_ > now THEN 0 ELSE 1
             /\ Cardinality(NewProxyOnly) =
                   IF \E k \in Ledger : k.for_proxies /\ k.valid_until_ > now THEN 0 ELSE 1]_vars

\* The same with the test the sweep applies: a key is left, and counted for
\* its roles, unless valid_until < now.
C25_OneKeyPerRoleNotSwept ==
    [][AlarmCycle
          => /\ NewRecords = NewWorkerOnly \cup NewProxyOnly
             /\ Cardinality(NewWorkerOnly) =
                   IF \E k \in Ledger : k.for_workers /\ ~(k.valid_until_ < now) THEN 0 ELSE 1
             /\ Cardinality(NewProxyOnly) =
                   IF \E k \in Ledger : k.for_proxies /\ ~(k.valid_until_ < now) THEN 0 ELSE 1]_vars

\* What a sequence of kv_ calls makes of a store and of its flushed state:
\* a set or an erase changes the store, a flush makes the store as it then
\* is the flushed one, and only what a commit has closed can be flushed.
RECURSIVE Replay(_, _)
Replay(st, calls) ==
    IF calls = <<>> THEN st
    ELSE LET c == Head(calls)
             next ==
                 IF c.op = "begin_transaction" THEN [st EXCEPT !.open = TRUE]
                 ELSE IF c.op = "commit_transaction"
                 THEN [st EXCEPT !.open = FALSE, !.committed = st.kv]
                 ELSE IF c.op = "flush" THEN [st EXCEPT !.durable = st.committed]
                 ELSE IF c.op = "set"
                 THEN [st EXCEPT !.kv = kv_set(st.kv, c.key, c.value),
                                 !.committed = IF st.open THEN st.committed
                                               ELSE kv_set(st.kv, c.key, c.value)]
                 ELSE [st EXCEPT !.kv = kv_erase(st.kv, c.key),
                                 !.committed = IF st.open THEN st.committed
                                               ELSE kv_erase(st.kv, c.key)]
         IN  Replay(next, Tail(calls))

\* C26: a maintenance cycle calls begin_transaction first, then makes its
\* writes (the config version, the erases, the new keys), then calls
\* commit_transaction once and flush after it, and nothing else; the calls
\* in that order are what brings the store, and the flushed store, to the
\* state the cycle leaves them in.
C26_CycleIsOneTransaction ==
    [][AlarmCycle
          => LET calls == alarm_calls(machine, active_config_version_, root_version, now)
                 n == Len(calls)
                 after == Replay([kv |-> kv, committed |-> kv, durable |-> durable,
                                  open |-> FALSE], calls)
             IN  /\ n >= 3
                 /\ calls[1].op = "begin_transaction"
                 /\ \A i \in 2..(n - 2) : calls[i].op \in {"set", "erase"}
                 /\ calls[n - 1].op = "commit_transaction"
                 /\ calls[n].op = "flush"
                 /\ after.kv = kv'
                 /\ after.durable = durable'
                 /\ ~after.open]_vars

\* A cycle has written the advanced version, erased an expired key and
\* written a key for each role.
C26_Witness ==
    /\ response.to = "alarm"
    /\ pc = "custom_initialized"
    /\ active_config_version_ = 1
    /\ StoredVersion(durable) = 1
    /\ entropy = 3
    /\ Len(private_keys_) = 2
    /\ \A k \in Ledger : k.valid_since_ = now /\ now > key_ttl
    /\ Cardinality(KeyEntries(durable)) = 2

C28_OneEventAtATime ==
    /\ [][response'.to \in QueryMagics
             => /\ ~handler_running
                /\ Idle
                /\ UNCHANGED <<private_keys_, kv, durable, active_config_version_>>
                /\ response'.status = "ok"
                      => response'.keys =
                             IF response'.to = "getProxyPrivateKeys"
                             THEN proxy_private_keys(private_keys_)
                             ELSE worker_private_keys(private_keys_)]_vars
    /\ [][handler_running
             => /\ response'.to = response.to
                /\ UNCHANGED <<pc, now, root_version>>]_vars

\* A query is answered with a key that an HTTP request generated statement
\* by statement: a key for both roles.
C28_Witness ==
    /\ response.to = "getProxyPrivateKeys"
    /\ response.status = "ok"
    /\ \E i \in DOMAIN private_keys_ :
          /\ private_keys_[i].for_proxies
          /\ private_keys_[i].for_workers
          /\ \E j \in DOMAIN response.keys :
                response.keys[j] = <<private_keys_[i].valid_until_,
                                     private_keys_[i].private_key>>

\* The config version a key_* entry of a store was written under.
StoredSinceVersion(store, k) ==
    fetch_keyManagerDb_key(store[k].payload).valid_since_config_version_

\* C29: every record of the ledger is valid since a config version that is
\* at most the active one; in the store, and in what of it is flushed, every
\* key entry is valid since a version that is at most the version of the
\* config entry, so the version check of the bootstrap passes on every key
\* entry and a process that gets as far as custom_initialize with the store
\* the node wrote does not abort; and the keys an alarm cycle generates carry
\* the version the cycle leaves active, advanced or not.
C29_KeyVersionsWithinConfigVersion ==
    /\ [](\A i \in DOMAIN private_keys_ :
             private_keys_[i].valid_since_config_version_ <= active_config_version_)
    /\ [](\A k \in KeyEntries(kv) : StoredSinceVersion(kv, k) <= StoredVersion(kv))
    /\ [](\A k \in KeyEntries(durable) :
             StoredSinceVersion(durable, k) <= StoredVersion(durable))
    /\ [](pc = "configured"
             => \A k \in KeyEntries(kv) :
                   config_version_reached(read_config(kv, root_version).version,
                                          StoredSinceVersion(kv, k)))
    /\ [][(pc = "configured" /\ custom_initialize) => pc' = "custom_initialized"]_vars
    /\ [][AlarmCycle
             => \A i \in NewRecords :
                   private_keys_'[i].valid_since_config_version_
                       = active_config_version_']_vars
    /\ [][(AlarmCycle /\ root_version > active_config_version_)
             => /\ active_config_version_' = root_version
                /\ \A i \in NewRecords :
                      /\ private_keys_'[i].valid_since_config_version_ = root_version
                      /\ StoredSinceVersion(kv', KeyDbKey(private_keys_'[i].public_key))
                             = root_version]_vars

\* A new process is about to bootstrap from a store that holds a key written
\* under an advanced version.
C29_Witness ==
    /\ pc = "configured"
    /\ StoredVersion(kv) > 0
    /\ \E k \in KeyEntries(kv) : StoredSinceVersion(kv, k) = StoredVersion(kv)

\* C30: when /request/removekey answers "key removed" and a record has left
\* the ledger, the entry of that record is in neither the store nor what of
\* the store has passed a flush, so that the store a crash leaves behind
\* does not hold the key.
C30_RemovalIsFlushed ==
    [][(/\ response'.to = "/request/removekey"
        /\ response'.text = "key removed"
        /\ private_keys_' # private_keys_)
          => \A i \in DOMAIN private_keys_ :
                ~InLedger(private_keys_', KeyDbKey(private_keys_[i].public_key))
                   => /\ KeyDbKey(private_keys_[i].public_key) \notin DOMAIN kv'
                      /\ KeyDbKey(private_keys_[i].public_key) \notin DOMAIN durable']_vars

\* The part of C30 that holds: the entry has left the store the running
\* process reads.
C30_RemovalReachesStore ==
    [][(/\ response'.to = "/request/removekey"
        /\ response'.text = "key removed"
        /\ private_keys_' # private_keys_)
          => \A i \in DOMAIN private_keys_ :
                ~InLedger(private_keys_', KeyDbKey(private_keys_[i].public_key))
                   => KeyDbKey(private_keys_[i].public_key) \notin DOMAIN kv']_vars

\* C31: load_config leaves the check of the role hashes enabled exactly when
\* the configuration has check_hashes set or is_test unset; the member
\* changes in load_config or with the end of the process and in no other
\* step, so once enabled it stays enabled while the process lives; and while
\* it is enabled no query is answered with keys to a hash outside the list
\* of its role.
C31_CheckHashesEnabledByConfig ==
    /\ [][(pc = "created" /\ pc' = "configured")
             => \A c \in BOOLEAN, t \in BOOLEAN :
                   load_config(c, t) => (check_hashes_' <=> (c \/ ~t))]_vars
    /\ [][check_hashes_' # check_hashes_
             => \/ pc = "created" /\ pc' = "configured"
                \/ pc' \in {"created", "dead"} /\ ~check_hashes_']_vars
    /\ [][(check_hashes_ /\ pc' = pc) => check_hashes_']_vars
    /\ []((check_hashes_ /\ response.to \in QueryMagics /\ response.status = "ok")
             => IF response.to = "getProxyPrivateKeys"
                THEN has_proxy_hash(root_version, response.from)
                ELSE has_worker_hash(root_version, response.from))

\* The check is enabled on a serving runner and a query from a hash outside
\* the list has been refused.
C31_Witness ==
    /\ is_initialized
    /\ check_hashes_
    /\ response.to \in QueryMagics
    /\ response.status = "error"
    /\ private_keys_ # <<>>

\* The call of TlsPipeWorker::do_loop that fails in the loop of end s, if
\* one does: loop_read on a closed raw pipe, the TLS engine in run, or
\* loop_write on a closed raw pipe.
do_loop_error(s) ==
    IF raw[s] = <<>> /\ PeerClosed(s) THEN "loop_read"
    ELSE LET r == left_ssl_loop(s, tunnel[s], raw[s])
         IN  IF r.is_error THEN "left_ssl_.loop"
             ELSE IF r.output # <<>> /\ PeerClosed(s) THEN "loop_write"
             ELSE "ok"

\* The worker of end s stops in this step, its peer not verified.
StopsUnverified(s) ==
    /\ tunnel[s].worker = "running"
    /\ tunnel'[s].worker = "stopped"
    /\ tunnel[s].left_ssl_ # "done"
    /\ tunnel'[s].left_ssl_ # "done"

\* C32: when the raw pipe closes or the TLS engine fails before the peer is
\* verified, the worker stops and the task that awaits the wrap call is
\* failed with the status the worker stopped on (the rejection of the
\* policy, when that is what failed the engine); and a wrap call whose raw
\* pipe has closed eventually completes, with a pipe or with an error.
C32_TerminalErrorReachesTask ==
    /\ [][\A s \in Sides :
             StopsUnverified(s)
                => /\ tunnel'[s].left_inner_ = "released"
                   /\ tunnel'[s].peer_info_promise_.state = "error"
                   /\ tunnel'[s].peer_info_promise_.error
                         \in {do_loop_error(s), tunnel[s].policy.error}]_vars
    /\ \A s \in Sides :
          (tunnel[s].pos = "await_peer_info" /\ PeerClosed(s))
              ~> (tunnel[s].pos \in {"returned", "failed"})

\* The part of C32 that holds: a loop that fails stops the worker and lets
\* go of the raw pipe, a loop that does not fail leaves it running, and a
\* task is never given a pipe by a worker that stopped unverified.
C32_FailedLoopStopsWorker ==
    /\ [][\A s \in Sides :
             (tunnel[s].worker = "running" /\ loop(s))
                => IF do_loop_error(s) # "ok"
                   THEN tunnel'[s].worker = "stopped" /\ tunnel'[s].left_inner_ = "released"
                   ELSE tunnel'[s].worker = "running"]_vars
    /\ [](\A s \in Sides :
             (tunnel[s].worker = "stopped" /\ tunnel[s].left_ssl_ # "done")
                => tunnel[s].pos # "returned")

\* What PolicyHelper::validate of end s makes of the certificate of the
\* other end when its policy accepts it.
AcceptedPeerInfo(s) ==
    make_attested_peer_info(
        AttestationData(Quote(tunnel[Peer(s)].cert_and_key)),
        UserClaims(tunnel[Peer(s)].cert_and_key),
        tunnel[s].source, tunnel[s].destination)

\* C33: a wrap call holds or returns a pipe only when the policy of its end
\* has accepted the certificate of the other end on this connection and the
\* promise carries the AttestedPeerInfo of that validation, which is the one
\* returned with the pipe; the worker is asked for the pipe (extract_fd) only
\* by a task that has obtained the peer info, and gives its pipe to no one
\* else.
C33_PipeOnlyAfterAcceptedPeer ==
    /\ [](\A s \in Sides :
             (tunnel[s].pos = "returned" \/ tunnel[s].result.tls_pipe
                  \/ tunnel[s].right_ = "moved")
                => /\ tunnel[s].pos = "returned"
                   /\ tunnel[s].result.tls_pipe
                   /\ tunnel[s].left_ssl_ = "done"
                   /\ tunnel[Peer(s)].pos # "not_called"
                   /\ tunnel[Peer(s)].cert_and_key \in tunnel[s].policy.accepts
                   /\ tunnel[s].peer_info_promise_ = set_value(AcceptedPeerInfo(s))
                   /\ tunnel[s].result.peer_info = AcceptedPeerInfo(s))
    /\ [](\A s \in Sides :
             tunnel[s].pos = "await_extract_fd"
                => /\ tunnel[s].peer_info_promise_.state = "value"
                   /\ tunnel[s].peer_info = tunnel[s].peer_info_promise_.value
                   /\ tunnel[s].peer_info # NoPeerInfo)
    /\ [][\A s \in Sides :
             tunnel'[s].right_ # tunnel[s].right_ /\ tunnel'[s].right_ = "moved"
                => /\ tunnel[s].pos = "await_extract_fd"
                   /\ tunnel[s].peer_info = AcceptedPeerInfo(s)]_vars

\* The client, whose policy accepts one key only, has returned a pipe with
\* the peer info of the server, and the server's call has failed.
C33_Witness ==
    /\ tunnel["client"].pos = "returned"
    /\ tunnel["client"].result.tls_pipe
    /\ tunnel["client"].policy.accepts = {1}
    /\ tunnel["client"].result.peer_info = AcceptedPeerInfo("client")
    /\ tunnel["server"].pos = "failed"

FirstFailure ==
    IF flush_read_fails(relay.left_) THEN "left_.flush_read"
    ELSE IF flush_read_fails(relay.right_) THEN "right_.flush_read"
    ELSE LET both == proxy_both_ways(flush_read(relay.left_), flush_read(relay.right_))
         IN  IF flush_write_fails(both.left_) THEN "left_.flush_write"
             ELSE IF flush_write_fails(both.right_) THEN "right_.flush_write"
             ELSE "pending"

\* C35: an iteration of the relay in which no flush fails leaves it running
\* with no status, and the relay finishes in no other step than an iteration
\* in which a flush fails, which needs a closed pipe; an iteration in which a
\* flush fails finishes the relay with the status of the first call that
\* failed, and nothing is delivered by a call after that one; once finished
\* the relay holds no bytes and delivers none.
C35_RelayRunsUntilFirstFailure ==
    /\ [][\A al \in 0..BufferBound, ar \in 0..BufferBound :
             (relay.status = "running" /\ task_loop_once(al, ar))
                => IF FirstFailure = "pending"
                   THEN relay'.status = "running" /\ relay'.result = "pending"
                   ELSE /\ relay'.status = "finished"
                        /\ relay'.result = FirstFailure
                        /\ relay'.right_.received = relay.right_.received
                        /\ FirstFailure # "right_.flush_write"
                              => relay'.left_.received = relay.left_.received]_vars
    /\ [][(relay.status # "finished" /\ relay'.status = "finished")
             => /\ relay.status = "running"
                /\ relay.left_.closed \/ relay.right_.closed
                /\ FirstFailure # "pending"]_vars
    /\ [][relay.status = "finished" => relay' = relay]_vars
    /\ [](relay.status = "finished"
             => /\ relay.result # "pending"
                /\ \A pipe \in {relay.left_, relay.right_} :
                      /\ pipe.readable = <<>>
                      /\ pipe.input_buffer = <<>>
                      /\ pipe.output_buffer = <<>>)
    /\ [](relay.status # "finished" => relay.result = "pending")

\* The relay has finished on a write to its closed right pipe, after the
\* left pipe was given a byte in the same iteration.
C35_Witness ==
    /\ relay.status = "finished"
    /\ relay.result = "right_.flush_write"
    /\ relay.left_.received # <<>>
    /\ ~relay.left_.closed

\* C36: transferCocoonToOwner is called only when the command has seen the
\* proxy closed (in the state CLOSED, or gone from the stats) and the proxy
\* withdraw was sent, found settled, or made needless by the removal of the
\* proxy; a command that gave up (no stats, no proxy, no deposit, declined,
\* close failed, timeout, withdraw failed) sent no transfer and is never at
\* step 3; and a command that started on an ACTIVE proxy has sent the close
\* request, once, before any withdraw request.
C36_TransferOnlyAfterCloseAndWithdraw ==
    /\ [](unstake.pos = "step3" \/ unstake.transfer # "none"
             => /\ unstake.closed \in {"state", "removed"}
                /\ unstake.withdraw \in {"sent", "settled", "automatic"}
                /\ unstake.withdraw = "automatic" <=> unstake.closed = "removed"
                /\ unstake.gave_up = "no")
    /\ [](unstake.gave_up # "no"
             => unstake.pos = "ended" /\ unstake.transfer = "none")
    /\ []((unstake.state = SC_STATE_ACTIVE /\ unstake.sent # <<>>)
             => /\ unstake.sent[1] = "close"
                /\ \A i \in 2..Len(unstake.sent) : unstake.sent[i] = "withdraw")
    /\ [](Len(unstake.sent) <= 2)
    /\ [][unstake'.transfer \notin {unstake.transfer, "none"}
             => unstake.pos = "step3" /\ unstake.transfer = "none"]_vars

\* The command started on an ACTIVE proxy, sent close, polled until the
\* proxy was closed, sent the withdraw and then the transfer.
C36_Witness ==
    /\ unstake.state = SC_STATE_ACTIVE
    /\ unstake.sent = <<"close", "withdraw">>
    /\ unstake.elapsed > 0
    /\ unstake.withdraw = "sent"
    /\ unstake.transfer = "sent"

C37_WitnessMax ==
    /\ payout.command = "withdraw"
    /\ payout.isMax
    /\ payout.sent = <<payout.balance - SC_RESERVE>>

\* C38: once the shutdown has begun and every spawned child has exited, the
\* parent has run the cleanup once and exited with code 0, unless the 5 s
\* timeout fired first; and it exits with code 1 only when the timeout
\* fired while some child was still running, which was then sent SIGKILL.
C38_ExitsZeroWhenAllChildrenExited ==
    /\ children.shuttingDown
       /\ (\A c \in Spawned : children.status[c] # "running")
       /\ children.timeout # "fired"
          => children.exit = "0" /\ children.cleanups = 1
    /\ children.exit = "1" => children.sigkill # {}

\* C38, the rest of it: every child running at the first signal is sent
\* SIGTERM, a repeated signal starts no second shutdown, repeated
\* setupSignalHandlers calls register no second handler, and the cleanup
\* has run exactly once when the parent exits with 0 or 1 and not before.
C38_OneShutdownOneCleanup ==
    /\ [](children.handlers <= 1 /\ children.shutdowns <= 1)
    /\ [](children.exit \in {"0", "1"} <=> children.cleanups = 1)
    /\ [](children.cleanups <= 1)
    /\ [][~children.shuttingDown /\ children'.shuttingDown
             => children'.sigterm = {c \in Spawned : children.status[c] = "running"}]_vars

\* A clean shutdown: the handlers were set up twice, two signals came, both
\* children were sent SIGTERM and exited, the parent exited with 0.
C38_Witness ==
    /\ children.exit = "0"
    /\ children.signals = 2
    /\ children.setup_calls = 2
    /\ children.sigterm = Children
    /\ children.cleanups = 1

\* The same with the children ended by a signal before the shutdown left
\* out: what remains of the first statement.
C38_ExitsZeroUnlessSignalledBefore ==
    (\A c \in Spawned : children.status[c] = "signalled" => c \in children.sigterm)
        => C38_ExitsZeroWhenAllChildrenExited

\* The line matches the fatal or the error pattern.
IsErrorLine(line) ==
    Matches("fatal", StripAnsi(line)) \/ Matches("error", StripAnsi(line))

\* The line matches one of the patterns before fatal and error.
IsLifecycleLine(line) ==
    \E i \in 1..6 : Matches(LIFECYCLE_PATTERNS[i], StripAnsi(line))

\* C39: a line of a child that matches the fatal or the error pattern has
\* been written to stderr and reported through onEvent as fatal or error,
\* in quiet mode as in verbose mode; and in quiet mode a line that matches
\* neither has printed nothing.
C39_ErrorLinesAlwaysShown ==
    output.pos = "line" =>
        /\ IsErrorLine(output.line)
              => /\ output.stderr = <<trim(StripAnsi(output.line))>>
                 /\ \E i \in 1..Len(output.events) : output.events[i] \in {"fatal", "error"}
        /\ output.quiet /\ ~IsErrorLine(output.line)
              => output.stderr = <<>> /\ output.stdout = <<>>

\* C39, what holds of it: the same, but in quiet mode only for the error
\* lines that match no earlier pattern; in quiet mode nothing but error
\* lines is printed.
C39_ErrorLinesShownUnlessLifecycleFirst ==
    output.pos = "line" =>
        /\ IsErrorLine(output.line) /\ ~(output.quiet /\ IsLifecycleLine(output.line))
              => /\ output.stderr = <<trim(StripAnsi(output.line))>>
                 /\ output.stdout = <<>>
                 /\ output.events[Len(output.events)] \in {"fatal", "error"}
        /\ output.quiet
              => /\ output.stdout = <<>>
                 /\ output.stderr # <<>> => IsErrorLine(output.line)

\* An error line was shown in quiet mode.
C39_Witness ==
    /\ output.pos = "line"
    /\ output.quiet
    /\ output.line = <<"[ 0]", Ansi, "Error">>
    /\ output.stderr = <<<<"[ 0]", "Error">>>>
    /\ output.events = <<"error">>

\* C40: withRetry calls fn at most maxRetries times; every call but the
\* last one made threw an error with status 429 or with 429 in its message,
\* and was followed by a delay longer than the one before (2 s, 4 s, ...);
\* a result returned is that of the last call made, the first that
\* succeeded; an error thrown is the one of the last call made, and it is
\* either no 429 or the 429 of the maxRetries-th call.
C40_RetriesOnlyAfter429 ==
    /\ retry.calls <= retry.maxRetries
    /\ Len(retry.delays) = retry.i
    /\ \A k \in 1..Len(retry.delays) :
          /\ retry.delays[k] = k * RetryDelayMs
          /\ k > 1 => retry.delays[k] > retry.delays[k - 1]
          /\ retry.errors[k].status = 429 \/ retry.errors[k].message_429
    /\ retry.outcome = "none" => retry.calls = retry.i /\ Len(retry.errors) = retry.i
    /\ retry.outcome = "returned"
          => /\ retry.result = retry.calls
             /\ retry.calls = retry.i + 1
             /\ Len(retry.errors) = retry.i
    /\ retry.outcome = "threw"
          => /\ Len(retry.errors) = retry.calls
             /\ retry.calls = retry.i + 1
             /\ \/ ~(retry.errors[retry.calls].status = 429
                       \/ retry.errors[retry.calls].message_429)
                \/ retry.calls = retry.maxRetries

\* Four calls met a 429 and were retried with growing delays; the fifth, the
\* last one allowed, met a 429 as well, which was thrown.
C40_Witness ==
    /\ retry.maxRetries = DefaultMaxRetries
    /\ retry.outcome = "threw"
    /\ retry.calls = DefaultMaxRetries
    /\ retry.delays = <<2000, 4000, 6000, 8000>>
    /\ retry.errors[DefaultMaxRetries].status = 429

\* The first call met a 429, the second succeeded and its result was returned.
C40_WitnessReturned ==
    /\ retry.outcome = "returned"
    /\ retry.result = 2
    /\ retry.delays = <<2000>>

\* An error that is no 429 was thrown at once.
C40_WitnessOtherError ==
    /\ retry.outcome = "threw"
    /\ retry.calls = 1
    /\ retry.maxRetries = DefaultMaxRetries
    /\ retry.errors = <<[status |-> 500, message_429 |-> FALSE]>>

====
